---- MODULE Spec2Model ----
(***************************************************************************)
(* Block replay storage (the write-ahead log of ReplayRecords) of the      *)
(* node, the replay streams read from it, and the batch verification       *)
(* protocol between the main sequencer and the signer nodes.               *)
(*                                                                         *)
(*   lib/storage/src/db/replay.rs      BlockReplayStorage (RocksDB backed) *)
(*   lib/storage_api/src/replay.rs     ReadReplay / ReadReplayExt streams  *)
(*   lib/types/src/batch_signature.rs  BatchSignature, BatchSignatureSet   *)
(*   lib/batch_verification/src/sequencer/component.rs    BatchVerifier    *)
(*   lib/batch_verification/src/verification_client.rs    signer client    *)
(*   node/bin/src/batch_verification_transport.rs         server, client   *)
(*                                                                         *)
(* The database is modelled as its six column families, each a map from    *)
(* key bytes to value bytes; records are encoded to and decoded from bytes *)
(* the way the code does it.  Each subsystem has its own specification;    *)
(* the variables of the other subsystems keep their initial values in it.  *)
(***************************************************************************)
EXTENDS Integers, Sequences, FiniteSets, TLC

VARIABLES
    db,             \* RocksDB<BlockReplayColumnFamily>: column family -> (key -> value)
    handle,         \* "closed": no process holds the storage; "open": BlockReplayStorage::new returned
    result,         \* outcome of the writer's last append call ("interrupted": a crash cut it short)
    stream,         \* the replay stream a reader holds (stream_from / stream_from_forever)
    signature_set,  \* a BatchSignatureSet under push calls, with the result of the last push
    config,         \* BatchVerificationConfig of the sequencer (threshold)
    verifier,       \* BatchVerifier: position in run / collect_batch_verification_signatures, its locals
    response_channels, \* DashMap<u64, mpsc::Sender<BatchVerificationResponse>> and the channels behind it
    server,         \* BatchVerificationServer: connected clients, broadcast requests, response_sender queue
    downstream,     \* the SignedBatchEnvelopes sent to the next pipeline component
    client,         \* BatchVerificationClient of one signer node: block_storage, socket, run loop
    statistics,     \* a GasStatistics<u128> under add_samples calls
    samples_added,  \* history: every sample handed to that GasStatistics so far, in arrival order
    fee_history,    \* a call of EthFeeProvider::base_fee_history: arguments, requests made, result
    adjuster,       \* GasAdjuster and its run loop: both statistics, the failure counter; the L1 head
    command_source, \* the main node's command source: WAL range read at start-up, commands emitted
    sequencer,      \* Sequencer::run: position in the loop, state, repository, mempool, WAL, output
    pipeline,       \* a pipeline of stage tasks linked by bounded channels: command source, sequencer, a later stage
    l1_sender,      \* run_l1_sender_dry_run: its inbound commands, position in the loop, envelopes sent downstream
    block_cache,    \* a BlockCache under insert and remove_lower_then calls, with the result of the last insert
    routing         \* one batch's attempts and the response processor at the steps that lock the request_id map

walVars == <<db, handle, result, stream>>
verifierVars == <<config, verifier, response_channels, server, downstream>>
batchVars == <<signature_set, verifierVars, client>>
gasVars == <<statistics, samples_added, fee_history, adjuster>>
pipelineVars == <<command_source, sequencer>>
stageVars == <<pipeline, l1_sender, block_cache, routing>>
vars == <<db, handle, result, stream, signature_set, config, verifier,
          response_channels, server, downstream, client, statistics,
          samples_added, fee_history, adjuster, command_source, sequencer,
          pipeline, l1_sender, block_cache, routing>>

-----------------------------------------------------------------------------
(* Bounds of the model *)

\* block numbers of the records offered to append are 0..MaxBlock
MaxBlock == 3

-----------------------------------------------------------------------------
(* Option<T>: None is the empty set, Some(v) the singleton {v} *)

None == {}
Some(v) == {v}
UnwrapOr(opt, default) == IF opt = {} THEN default ELSE CHOOSE v \in opt : TRUE

-----------------------------------------------------------------------------
(* Byte encodings *)

\* u64::to_be_bytes. Model integers stay below 2^31, so the four high bytes are 0.
ToBeBytes(n) ==
    [i \in 1..8 |-> IF i <= 4 THEN 0 ELSE (n \div (256 ^ (8 - i))) % 256]

RECURSIVE BeValue(_, _, _)
BeValue(bytes, i, acc) ==
    IF i > Len(bytes) THEN acc ELSE BeValue(bytes, i + 1, acc * 256 + bytes[i])

\* u64::from_be_bytes
FromBeBytes(bytes) == BeValue(bytes, 1, 0)

\* bincode::config::standard() integer encoding (varint, little endian):
\* one byte below 251, else the marker 251 and a little-endian u16.
VarintEncode(u) ==
    IF u < 251 THEN <<u>> ELSE <<251, u % 256, u \div 256>>

\* Decodes one varint at the head of bytes: the value and the bytes left.
VarintDecode(bytes) ==
    IF bytes[1] < 251
    THEN [val |-> bytes[1], rest |-> Tail(bytes)]
    ELSE [val |-> bytes[2] + 256 * bytes[3], rest |-> SubSeq(bytes, 4, Len(bytes))]

\* bincode::serde::encode_to_vec(record.block_context, ..): the fields in order.
\* Of BlockContext the model keeps block_number and timestamp.
EncodeContext(ctx) ==
    VarintEncode(ctx.block_number) \o VarintEncode(ctx.timestamp)

\* bincode::serde::decode_from_slice(&bytes, ..) of a BlockContext
DecodeContext(bytes) ==
    LET bn == VarintDecode(bytes)
        ts == VarintDecode(bn.rest)
    IN  [block_number |-> bn.val, timestamp |-> ts.val]

RECURSIVE EncodeItems(_)
EncodeItems(txs) ==
    IF txs = <<>> THEN <<>> ELSE VarintEncode(Head(txs)) \o EncodeItems(Tail(txs))

\* bincode::encode_to_vec(&record.transactions, ..): length prefix, then the items.
\* A transaction is modelled as a number.
EncodeTxs(txs) == VarintEncode(Len(txs)) \o EncodeItems(txs)

RECURSIVE DecodeItems(_, _)
DecodeItems(bytes, n) ==
    IF n = 0 THEN <<>>
    ELSE LET d == VarintDecode(bytes)
         IN  <<d.val>> \o DecodeItems(d.rest, n - 1)

\* bincode::decode_from_slice(&transactions, ..)
DecodeTxs(bytes) ==
    LET len == VarintDecode(bytes) IN DecodeItems(len.rest, len.val)

\* semver::Version::to_string().as_bytes(): "major.minor.patch" in ASCII.
\* Versions of the model have one-digit components.
VersionToBytes(v) == <<48 + v[1], 46, 48 + v[2], 46, 48 + v[3]>>

\* The index of the first '.' (46) in bytes at or after i, Len(bytes) + 1 if none.
RECURSIVE DotAt(_, _)
DotAt(bytes, i) ==
    IF i > Len(bytes) \/ bytes[i] = 46 THEN i ELSE DotAt(bytes, i + 1)

\* The decimal number written in ASCII digits
RECURSIVE ParseNumber(_, _)
ParseNumber(digits, acc) ==
    IF digits = <<>> THEN acc
    ELSE ParseNumber(Tail(digits), acc * 10 + (Head(digits) - 48))

\* String::from_utf8(node_version).parse::<semver::Version>()
ParseVersion(bytes) ==
    LET d1 == DotAt(bytes, 1)
        d2 == DotAt(bytes, d1 + 1)
    IN  <<ParseNumber(SubSeq(bytes, 1, d1 - 1), 0),
          ParseNumber(SubSeq(bytes, d1 + 1, d2 - 1), 0),
          ParseNumber(SubSeq(bytes, d2 + 1, Len(bytes)), 0)>>

\* A B256 is its 32 bytes; the model's hashes differ in the last byte.
Hash(h) == [i \in 1..32 |-> IF i = 32 THEN h ELSE 0]
B256_ZERO == Hash(0)

-----------------------------------------------------------------------------
(* ReplayRecords offered to the storage *)

Versions == {<<0, 1, 0>>, <<0, 2, 0>>}

\* Two kinds of block content; a record of kind k carries the k-th timestamp,
\* l1 priority id, transaction list, node version and output hash.
Kinds == {1, 2}
KindTimestamp(k) == k
KindL1Id(k) == IF k = 1 THEN 0 ELSE 300
KindTxs(k) == IF k = 1 THEN <<7>> ELSE <<9, 7>>
KindVersion(k) == IF k = 1 THEN <<0, 1, 0>> ELSE <<0, 2, 0>>
KindHash(k) == Hash(k)

ReplayRecord(bn, k, pts, empty) ==
    [block_context |-> [block_number |-> bn, timestamp |-> KindTimestamp(k)],
     starting_l1_priority_id |-> KindL1Id(k),
     transactions |-> IF empty THEN <<>> ELSE KindTxs(k),
     previous_block_timestamp |-> pts,
     node_version |-> KindVersion(k),
     block_output_hash |-> KindHash(k)]

\* The previous_block_timestamp of a record offered: any block timestamp, or 0
PreviousTimestamps == {0} \cup {KindTimestamp(k) : k \in Kinds}

\* The records offered to append: of either kind with transactions, and with an
\* empty transaction list.
Records ==
    {ReplayRecord(bn, k, pts, FALSE) :
        bn \in 0..MaxBlock, k \in Kinds, pts \in PreviousTimestamps}
    \cup {ReplayRecord(bn, 1, 0, TRUE) : bn \in 0..MaxBlock}

\* The records the stream specifications append: those of one kind
StreamRecords ==
    {ReplayRecord(bn, 1, 0, empty) : bn \in 0..MaxBlock, empty \in BOOLEAN}

-----------------------------------------------------------------------------
(* The database: column families, write batches *)

ColumnFamilies ==
    {"context", "last_processed_l1_tx_id", "txs", "node_version",
     "block_output_hash", "latest"}

LATEST_KEY == "latest_block"

EmptyMap == [k \in {} |-> <<>>]
EmptyDb == [cf \in ColumnFamilies |-> EmptyMap]

\* RocksDB::get_cf
GetCf(d, cf, key) == IF key \in DOMAIN d[cf] THEN Some(d[cf][key]) ELSE None

\* One put_cf of a write batch applied to the database
PutCf(d, put) ==
    [d EXCEPT ![put.cf] =
        [k \in DOMAIN d[put.cf] \cup {put.key} |->
            IF k = put.key THEN put.value ELSE d[put.cf][k]]]

RECURSIVE ApplyPuts(_, _)
ApplyPuts(d, puts) ==
    IF puts = <<>> THEN d ELSE ApplyPuts(PutCf(d, Head(puts)), Tail(puts))

\* The WriteBatch append_replay_unchecked builds for a record: the latest
\* pointer and the five entries of the record, all under the block number.
ReplayBatch(record) ==
    LET block_num == ToBeBytes(record.block_context.block_number)
    IN  <<[cf |-> "latest", key |-> LATEST_KEY, value |-> block_num],
          [cf |-> "context", key |-> block_num,
           value |-> EncodeContext(record.block_context)],
          [cf |-> "last_processed_l1_tx_id", key |-> block_num,
           value |-> VarintEncode(record.starting_l1_priority_id)],
          [cf |-> "txs", key |-> block_num,
           value |-> EncodeTxs(record.transactions)],
          [cf |-> "node_version", key |-> block_num,
           value |-> VersionToBytes(record.node_version)],
          [cf |-> "block_output_hash", key |-> block_num,
           value |-> record.block_output_hash]>>

\* self.db.write(batch): the whole batch or nothing
DbWrite(d, batch) == ApplyPuts(d, batch)

\* The databases a crash during self.db.write(batch) can leave if the puts were
\* written one by one: any prefix of the batch applied.
UnbatchedCrashOutcomes(d, batch) ==
    {ApplyPuts(d, SubSeq(batch, 1, n)) : n \in 0..Len(batch)}

\* The databases a crash during self.db.write(batch) can leave: the batch is
\* one atomic, synced RocksDB write, so it is applied in full or not at all.
WriteCrashOutcomes(d, batch) == {d, DbWrite(d, batch)}

\* BlockReplayStorage::append_replay_unchecked
AppendReplayUnchecked(d, record) == DbWrite(d, ReplayBatch(record))

-----------------------------------------------------------------------------
(* ReadReplay for BlockReplayStorage *)

\* BlockReplayStorage::get_context
GetContext(d, block_number) ==
    LET bytes == GetCf(d, "context", ToBeBytes(block_number))
    IN  IF bytes = None THEN None ELSE Some(DecodeContext(UnwrapOr(bytes, <<>>)))

\* The previous_block_timestamp get_replay_record derives from the context of
\* block_number - 1 (this variant reads the context of block_number itself).
SameBlockTimestamp(d, block_number) ==
    IF block_number = 0 THEN 0
    ELSE LET ctx == GetContext(d, block_number)
         IN  IF ctx = None THEN 0 ELSE UnwrapOr(ctx, 0).timestamp

\* get_replay_record's previous_block_timestamp: 0 for genesis, else the
\* timestamp of the previous block's stored context, 0 if there is none.
PreviousBlockTimestamp(d, block_number) ==
    IF block_number = 0 THEN 0
    ELSE LET ctx == GetContext(d, block_number - 1)
         IN  IF ctx = None THEN 0 ELSE UnwrapOr(ctx, 0).timestamp

\* BlockReplayStorage::get_replay_record. The result is tagged: "None", "Some"
\* with the record, or "Panic" when the context is stored and one of the
\* entries expected with it is not (the .expect calls).
GetReplayRecord(d, block_number) ==
    LET key == ToBeBytes(block_number)
        block_context == GetCf(d, "context", key)
        starting_l1_priority_id == GetCf(d, "last_processed_l1_tx_id", key)
        transactions == GetCf(d, "txs", key)
        node_version == GetCf(d, "node_version", key)
        block_output_hash == GetCf(d, "block_output_hash", key)
    IN  IF block_context = None THEN [tag |-> "None"]
        ELSE IF None \in {starting_l1_priority_id, transactions, node_version,
                          block_output_hash}
        THEN [tag |-> "Panic"]
        ELSE [tag |-> "Some",
              record |->
                [block_context |-> DecodeContext(UnwrapOr(block_context, <<>>)),
                 starting_l1_priority_id |->
                    VarintDecode(UnwrapOr(starting_l1_priority_id, <<>>)).val,
                 transactions |-> DecodeTxs(UnwrapOr(transactions, <<>>)),
                 previous_block_timestamp |-> PreviousBlockTimestamp(d, block_number),
                 node_version |-> ParseVersion(UnwrapOr(node_version, <<>>)),
                 block_output_hash |-> UnwrapOr(block_output_hash, <<>>)]]

\* BlockReplayStorage::latest_record: Option<BlockNumber>
LatestRecord(d) ==
    LET bytes == GetCf(d, "latest", LATEST_KEY)
    IN  IF bytes = None THEN None ELSE Some(FromBeBytes(UnwrapOr(bytes, <<>>)))

-----------------------------------------------------------------------------
(* WriteReplay for BlockReplayStorage, BlockReplayStorage::new *)

\* append with the "already exists" check left out
UnguardedAppendOutcome(d, record) ==
    IF record.transactions = <<>> THEN "panic" ELSE "appended"

\* The path append takes: "panic" when the assert on the transactions fails,
\* "exists" on the early return for a block number not above the latest,
\* "appended" when it goes on to append_replay_unchecked.
AppendOutcome(d, record) ==
    IF record.transactions = <<>> THEN "panic"
    ELSE LET current_latest_record == UnwrapOr(LatestRecord(d), 0)
         IN  IF record.block_context.block_number <= current_latest_record
             THEN "exists"
             ELSE "appended"

\* The database after append(record)
AppendStorage(d, record) ==
    IF AppendOutcome(d, record) = "appended"
    THEN AppendReplayUnchecked(d, record)
    ELSE d

\* The record BlockReplayStorage::new appends to an empty database; the genesis
\* context has block number 0 and timestamp 0.
GenesisRecord(node_version) ==
    [block_context |-> [block_number |-> 0, timestamp |-> 0],
     starting_l1_priority_id |-> 0,
     transactions |-> <<>>,
     previous_block_timestamp |-> 0,
     node_version |-> node_version,
     block_output_hash |-> B256_ZERO]

\* new that appends genesis whether or not the database is empty
AlwaysGenesisStorage(d, node_version) ==
    AppendReplayUnchecked(d, GenesisRecord(node_version))

\* The database after BlockReplayStorage::new
NewStorage(d, node_version) ==
    IF LatestRecord(d) = None
    THEN AppendReplayUnchecked(d, GenesisRecord(node_version))
    ELSE d

-----------------------------------------------------------------------------
(* Batch verification: commit data and signatures (lib/types/src/batch_signature.rs) *)

\* number of batch envelopes handed to the verifier; their batch numbers are
\* FirstBatch .. FirstBatch + MaxBatches - 1
MaxBatches == 1

\* batch number of the first envelope the verifier receives after start
FirstBatch == 2

\* signatures one signer can produce over one message are numbered 0..MaxNonce
MaxNonce == 1

BatchNumbers == FirstBatch..(FirstBatch + MaxBatches - 1)

\* The fields of CommitBatchInfo, in the order the client compares them
CommitFields ==
    <<"batchNumber", "newStateCommitment", "numberOfLayer1Txs",
      "priorityOperationsHash", "dependencyRootsRollingHash", "l2LogsTreeRoot",
      "l2DaValidator", "daCommitment", "firstBlockTimestamp",
      "lastBlockTimestamp", "chainId", "operatorDAInput">>

\* The (BlockOutput, ReplayRecord, BlockMerkleTreeData) of block n. The fork
\* "main" is the block as the main sequencer produced it, "other" a block
\* that diverges from it, "broken" one whose tree data has no root info.
BlockForks == {"main", "other", "broken"}
ForkCode(fork) == IF fork = "main" THEN 7 ELSE 9
Block(n, fork) ==
    [number |-> n,
     timestamp |-> 100 + n,
     state_commitment |-> (1000 + (10 * n)) + ForkCode(fork),
     pubdata |-> <<ForkCode(fork)>>,
     root_info |-> IF fork = "broken" THEN "Err" ELSE "Ok"]

RECURSIVE Pubdata(_)
Pubdata(blocks) ==
    IF blocks = <<>> THEN <<>> ELSE Head(blocks).pubdata \o Pubdata(Tail(blocks))

RECURSIVE Sum(_)
Sum(bytes) == IF bytes = <<>> THEN 0 ELSE Head(bytes) + Sum(Tail(bytes))

\* BatchInfo::new(blocks, chain_id, chain_address, batch_number).commit_info
BatchInfoNew(blocks, chain_id, batch_number) ==
    [batchNumber |-> batch_number,
     newStateCommitment |-> blocks[Len(blocks)].state_commitment,
     numberOfLayer1Txs |-> 0,
     priorityOperationsHash |-> 0,
     dependencyRootsRollingHash |-> 0,
     l2LogsTreeRoot |-> 0,
     l2DaValidator |-> 0,
     daCommitment |-> 2000 + Sum(Pubdata(blocks)),
     firstBlockTimestamp |-> blocks[1].timestamp,
     lastBlockTimestamp |-> blocks[Len(blocks)].timestamp,
     chainId |-> chain_id,
     operatorDAInput |-> Pubdata(blocks)]

\* The chain both the sequencer and the signer nodes are configured for
ChainId == 270

\* A batch is made of two blocks: batch b of blocks 2b - 1 and 2b
FirstBlock(b) == (2 * b) - 1
LastBlock(b) == 2 * b

\* The envelope of batch b, as the main sequencer built it
BatchForSigning(b) ==
    [batch_number |-> b,
     first_block_number |-> FirstBlock(b),
     last_block_number |-> LastBlock(b),
     commit_info |->
        BatchInfoNew([i \in 1..2 |-> Block(FirstBlock(b) + (i - 1), "main")],
                     ChainId, b)]

\* encode_batch_for_signing: the ABI encoding of the fields, one after the other
EncodeBatchForSigning(batch_info) ==
    [i \in 1..Len(CommitFields) |-> batch_info[CommitFields[i]]]

\* Signer addresses: those of the accepted_signers allow-list and one outside of it
AcceptedSigners == {"0xA", "0xB"}
Signers == AcceptedSigners \cup {"0xC"}

\* The address recovery yields when the signature was made over another
\* message: an address nobody holds the key of
Stranger(signer) ==
    CASE signer = "0xA" -> "0xA'"
      [] signer = "0xB" -> "0xB'"
      [] OTHER -> "0xC'"

\* BatchSignature::sign_batch(batch_info, private_key); a signer can produce
\* several signatures (different bytes) over one message, told apart by nonce
SignBatch(batch_info, private_key, nonce) ==
    [signer |-> private_key, message |-> EncodeBatchForSigning(batch_info),
     nonce |-> nonce]

\* 65 bytes that are no signature: recovery fails on them
MalformedSignature == [signer |-> "none", message |-> <<>>, nonce |-> 0]

\* BatchSignature::verify_signature(self, batch_info): Err is the empty set,
\* Ok(ValidatedBatchSignature {signer, signature}) a singleton
VerifySignature(signature, batch_info) ==
    IF signature = MalformedSignature
    THEN None
    ELSE Some([signature |-> signature,
               signer |-> IF signature.message = EncodeBatchForSigning(batch_info)
                          THEN signature.signer
                          ELSE Stranger(signature.signer)])

\* ValidatedBatchSignature == ValidatedBatchSignature as #[derive(PartialEq)]
\* would compare it: signature bytes and signer
DerivedEq(a, b) == a = b

\* impl PartialEq for ValidatedBatchSignature: equality by signer only
Eq(a, b) == a.signer = b.signer

\* Vec::contains
Contains(set, signature) == \E i \in 1..Len(set) : Eq(set[i], signature)

\* BatchSignatureSet::push(&mut self, signature): the set afterwards and the result
Push(set, signature) ==
    IF Contains(set, signature)
    THEN [set |-> set, result |-> "DuplicatedSignature"]
    ELSE [set |-> Append(set, signature), result |-> "Ok"]

\* BatchSignatureSet::new()
NewSignatureSet == <<>>

\* The set before any push was called on it: no result and no argument yet
NoSignatureSet ==
    [set |-> NewSignatureSet, result |-> "none",
     argument |-> [signature |-> MalformedSignature, signer |-> "none"]]

\* The validated signatures offered to push: every signer's signatures over
\* the commit data of the first batch
ValidatedSignatures ==
    UNION {VerifySignature(
                SignBatch(BatchForSigning(FirstBatch).commit_info, s, n),
                BatchForSigning(FirstBatch).commit_info)
           : s \in Signers, n \in 0..MaxNonce}

-----------------------------------------------------------------------------
(* Batch verification: the sequencer side
   (lib/batch_verification/src/sequencer/component.rs,
    node/bin/src/batch_verification_transport.rs) *)

\* receiver_count(), the number of signer nodes connected when an attempt
\* starts, is any of 0..MaxClients
MaxClients == 2

\* config.threshold takes the values 0..MaxThreshold
MaxThreshold == 2

\* BatchVerificationConfig: request_timeout, retry_delay and total_timeout, in clock ticks
request_timeout == 1
retry_delay == 1
total_timeout == 2

\* BatchVerificationError
NoError == [kind |-> "none", clients |-> 0, required |-> 0]
Timeout == [kind |-> "Timeout", clients |-> 0, required |-> 0]
Internal == [kind |-> "Internal", clients |-> 0, required |-> 0]
NotEnoughSigners(clients_count, required_clients) ==
    [kind |-> "NotEnoughSigners", clients |-> clients_count,
     required |-> required_clients]

\* No BatchVerificationError retries everything, Internal too
AlwaysRetryable(err) == TRUE

\* BatchVerificationError::retryable
Retryable(err) == err.kind # "Internal"

\* BatchVerifier::new: request_id_counter starts at 1; run waits for an envelope
NewVerifier ==
    [pc |-> "idle", received |-> 0, envelope |-> 0,
     request_id_counter |-> 1, request_id |-> 0,
     responses |-> NewSignatureSet, discarded |-> 0,
     remaining_time |-> 0, total_remaining |-> 0, sleep_remaining |-> 0,
     error |-> NoError]

\* DashMap::new()
NoChannels == [k \in {} |-> 0]

\* BatchVerificationServer::new: nothing broadcast yet
NewServer == [requests |-> <<>>]

\* The sequencer's batch verification step before any envelope arrived, with
\* the default threshold
VerifierIdle ==
    /\ config = [threshold |-> 1]
    /\ verifier = NewVerifier
    /\ response_channels = NoChannels
    /\ server = NewServer
    /\ downstream = <<>>

-----------------------------------------------------------------------------
(* Batch verification: the signer node's client
   (lib/batch_verification/src/verification_client.rs,
    node/bin/src/batch_verification_transport.rs) *)

\* The two BatchVerificationClient implementations of the repository
ClientVariants == {"lib", "node_bin"}

\* HashMap::new()
NoBlocks == [n \in {} |-> 0]

\* BatchVerificationClient::new followed by the handshake of run: connected,
\* no block stored, no frame sent to it (frames counts them), nothing read
\* from or written to the socket
NewClient(variant) ==
    [variant |-> variant,
     state |-> "connected",
     block_storage |-> NoBlocks,
     frames |-> 0,
     reader |-> <<>>,
     writer |-> <<>>]

NoClient == NewClient("lib")

-----------------------------------------------------------------------------
(* Gas adjuster: data *)

\* max_samples of the statistics under test is any of 0..MaxSamples
MaxSamples == 3

\* add_samples is called with at most MaxBatch samples at once,
\* GasStatistics::new with at most MaxSamples + 1
MaxBatch == 2

\* at most MaxAdded samples are handed to the statistics under test
MaxAdded == 5

\* The fee values sampled
Fees == {4, 6, 8}

\* All sequences over values of the lengths 0..n
RECURSIVE SeqsUpTo(_, _)
SeqsUpTo(values, n) ==
    IF n = 0
    THEN {<<>>}
    ELSE LET shorter == SeqsUpTo(values, n - 1)
         IN  shorter \cup {Append(xs, x) : xs \in {ys \in shorter : Len(ys) = n - 1},
                                            x \in values}

\* x put into the ascending sequence sorted, at its place
RECURSIVE Inserted(_, _)
Inserted(sorted, x) ==
    IF sorted = <<>>
    THEN <<x>>
    ELSE IF x <= Head(sorted)
    THEN <<x>> \o sorted
    ELSE <<Head(sorted)>> \o Inserted(Tail(sorted), x)

\* The values of samples in ascending order
RECURSIVE Ascending(_)
Ascending(samples) ==
    IF samples = <<>>
    THEN <<>>
    ELSE Inserted(Ascending(Tail(samples)), Head(samples))

\* the element at the index in the scratch copy as it is, unsorted
NthUnsorted(samples, index) == samples[index + 1]

\* samples.select_nth_unstable(index): the element that is at the 0-based
\* index once the scratch copy is sorted ascending
SelectNthUnstable(samples, index) == Ascending(samples)[index + 1]

\* the index of the lower of the two middle elements
LowerMiddle(len) == (len - 1) \div 2

\* self.samples.len() / 2
MedianIndex(len) == len \div 2

\* a drain that drops the newest samples
DrainNewest(samples, extra) == SubSeq(samples, 1, Len(samples) - extra)

\* self.samples.drain(..extra)
Drain(samples, extra) == SubSeq(samples, extra + 1, Len(samples))

\* usize::saturating_sub
SaturatingSub(a, b) == IF a > b THEN a - b ELSE 0

\* add_samples that counts one processed block whatever the number of fees
AddSamplesOneBlock(st, fees) ==
    LET extended == st.samples \o fees
        samples == Drain(extended, SaturatingSub(Len(extended), st.max_samples))
    IN  [st EXCEPT
            !.samples = samples,
            !.last_processed_block = @ + 1,
            !.median_cached =
                IF samples # <<>>
                THEN SelectNthUnstable(samples, MedianIndex(Len(samples)))
                ELSE @]

\* GasStatistics::add_samples(fees) on the statistics st
AddSamples(st, fees) ==
    LET old_len == Len(st.samples)
        extended == st.samples \o fees
        processed_blocks == Len(extended) - old_len
        extra == SaturatingSub(Len(extended), st.max_samples)
        samples == Drain(extended, extra)
    IN  [st EXCEPT
            !.samples = samples,
            !.last_processed_block = @ + processed_blocks,
            !.median_cached =
                IF samples # <<>>
                THEN SelectNthUnstable(samples, MedianIndex(Len(samples)))
                ELSE @]

\* GasStatistics::new(max_samples, block, fee_history)
GasStatisticsNew(max_samples, block, history) ==
    LET statistics0 == [max_samples |-> max_samples,
                        samples |-> <<>>,
                        median_cached |-> 0,
                        last_processed_block |-> 0]
    IN  [AddSamples(statistics0, history) EXCEPT !.last_processed_block = block]

\* No statistics under test
NoStatistics == GasStatisticsNew(0, 0, <<>>)

\* provider.rs: const FEE_HISTORY_MAX_REQUEST_CHUNK
FEE_HISTORY_MAX_REQUEST_CHUNK == 1023

\* The longest block ranges asked for span MaxChunks steps of the chunk loop
MaxChunks == 2

\* The first n elements of a sequence (Iterator::take)
Take(seq, n) == SubSeq(seq, 1, IF n < Len(seq) THEN n ELSE Len(seq))

\* The L1 node's answer to eth_feeHistory(block_count, newest_block): the
\* oldest block of the range and one entry per block of the range plus one
\* for the block after it. An entry is written as the number of the block
\* whose fees it holds. A node whose answer is unexpected reports a range
\* that starts one block later.
GetFeeHistory(block_count, newest_block, unexpected) ==
    LET oldest_block == SaturatingSub(newest_block + 1, block_count)
                            + (IF unexpected THEN 1 ELSE 0)
    IN  [oldest_block |-> oldest_block,
         base_fee_per_gas |-> [i \in 1..(block_count + 1) |-> oldest_block + i - 1]]

\* The loop of base_fee_history from chunk_start on; faulty is the number
\* of the request that the node answers unexpectedly (0: none)
RECURSIVE FeeHistoryChunks(_, _, _, _, _)
FeeHistoryChunks(chunk_start, upto_block, faulty, requests, history) ==
    IF chunk_start > upto_block
    THEN [requests |-> requests, history |-> history, result |-> "Ok"]
    ELSE
        LET chunk_end ==
                IF chunk_start + FEE_HISTORY_MAX_REQUEST_CHUNK < upto_block
                THEN chunk_start + FEE_HISTORY_MAX_REQUEST_CHUNK
                ELSE upto_block
            chunk_size == chunk_end - chunk_start + 1
            sent == Append(requests, [block_count |-> chunk_size,
                                      newest_block |-> chunk_end])
            response == GetFeeHistory(chunk_size, chunk_end, faulty = Len(sent))
        IN  IF response.oldest_block # chunk_start
            THEN [requests |-> sent, history |-> <<>>, result |-> "Err"]
            ELSE FeeHistoryChunks(chunk_start + FEE_HISTORY_MAX_REQUEST_CHUNK,
                                  upto_block, faulty, sent,
                                  history \o Take(response.base_fee_per_gas, chunk_size))

\* provider.base_fee_history(upto_block, block_count), block_count >= 1
BaseFeeHistory(upto_block, block_count, faulty) ==
    LET from_block == SaturatingSub(upto_block, block_count - 1)
    IN  FeeHistoryChunks(from_block, upto_block, faulty, <<>>, <<>>)

\* No fee history asked for
NoFeeHistory == [upto_block |-> 0, block_count |-> 0, requests |-> <<>>,
                 history |-> <<>>, result |-> "none"]

\* No gas adjuster
NoAdjuster == [pc |-> "none"]

GasIdle ==
    /\ statistics = NoStatistics
    /\ samples_added = <<>>
    /\ fee_history = NoFeeHistory
    /\ adjuster = NoAdjuster

-----------------------------------------------------------------------------
(* Block pipeline: data *)

\* The command source emits at most MaxCommands commands
MaxCommands == 4

\* No command source: command_source has not been called
NoCommandSource ==
    [pc |-> "none", block_to_start |-> 0, block_to_rebuild_from |-> {},
     last_block_in_wal |-> 0, current |-> 0, replay_end |-> 0,
     data |-> <<>>, emitted |-> <<>>]

\* No sequencer: Sequencer::run has not been called
NoSequencer ==
    [pc |-> "none", next_block |-> 0, replay_record |-> <<>>,
     max_blocks_to_produce |-> {}, produced_blocks_count |-> 0,
     tx_acceptance_state |-> "Accepting", executed |-> <<>>,
     log |-> <<>>, output |-> <<>>, exit |-> "none", returned |-> "none"]

PipelineIdle ==
    /\ command_source = NoCommandSource
    /\ sequencer = NoSequencer

\* No pipeline has been spawned
NoPipeline ==
    [pc |-> "none", max_blocks_to_produce |-> {}, replays |-> 0,
     source |-> "none", input |-> <<>>, sequencer |-> "none", command |-> "none",
     produced_blocks_count |-> 0, output |-> <<>>, stage |-> "none",
     consumer |-> "none", first |-> "none"]

\* No L1 sender: run_l1_sender_dry_run has not been called
NoL1Sender ==
    [pc |-> "none", inbound |-> <<>>, closed |-> FALSE, received |-> <<>>,
     cmd |-> <<>>, simulated |-> <<>>, outbound |-> <<>>, l1_transactions |-> 0,
     exit |-> "none", returned |-> "none"]

\* No block cache
NoBlockCache ==
    [pc |-> "none", data |-> <<>>, range |-> {}, last_committed_block |-> 0,
     block_number |-> 0, result |-> "none"]

\* No attempt of the verifier and no response processor
NoRouting ==
    [pc |-> "none", threshold |-> 0, request_id_counter |-> 0, request_id |-> 0,
     entries |-> {}, queue |-> 0, receiver |-> "none", responses |-> 0,
     verifier |-> "none", processor |-> "none", held |-> {}, response |-> 0,
     incoming |-> 0]

StagesIdle ==
    /\ pipeline = NoPipeline
    /\ l1_sender = NoL1Sender
    /\ block_cache = NoBlockCache
    /\ routing = NoRouting

-----------------------------------------------------------------------------
(* The replay storage: initial state and operations *)

NoStream ==
    [kind |-> "none", start |-> 0, end |-> 0, current |-> 0, out |-> <<>>,
     state |-> "none"]

\* The replay storage before any process opened it
WalInit ==
    /\ db = EmptyDb
    /\ handle = "closed"
    /\ result = "none"
    /\ stream = NoStream

Init ==
    /\ WalInit
    /\ signature_set = NoSignatureSet
    /\ VerifierIdle
    /\ client = NoClient
    /\ GasIdle
    /\ PipelineIdle
    /\ StagesIdle

\* BlockReplayStorage::new(db_path, genesis, node_version): the process starts
\* (or restarts) and opens the storage.
New(node_version) ==
    /\ handle = "closed"
    /\ db' = NewStorage(db, node_version)
    /\ handle' = "open"
    /\ UNCHANGED <<result, stream, signature_set, verifierVars, client,
                   gasVars, pipelineVars, stageVars>>

\* WriteReplay::append(record), called by the single writer
append(record) ==
    /\ handle = "open"
    /\ result' = AppendOutcome(db, record)
    /\ db' = AppendStorage(db, record)
    /\ UNCHANGED <<handle, stream, signature_set, verifierVars, client,
                   gasVars, pipelineVars, stageVars>>

\* The process dies outside of a write; synced writes stay on disk.
Crash ==
    /\ handle = "open"
    /\ handle' = "closed"
    /\ result' = "none"
    /\ stream' = NoStream
    /\ UNCHANGED <<db, signature_set, verifierVars, client,
                   gasVars, pipelineVars, stageVars>>

\* The process dies while append(record) is in append_replay_unchecked.
CrashDuringAppend(record) ==
    /\ handle = "open"
    /\ AppendOutcome(db, record) = "appended"
    /\ db' \in WriteCrashOutcomes(db, ReplayBatch(record))
    /\ handle' = "closed"
    /\ result' = "interrupted"
    /\ stream' = NoStream
    /\ UNCHANGED <<signature_set, verifierVars, client,
                   gasVars, pipelineVars, stageVars>>

Next ==
    \/ \E node_version \in Versions : New(node_version)
    \/ \E record \in Records : append(record)
    \/ Crash
    \/ \E record \in Records : CrashDuringAppend(record)

Spec == Init /\ [][Next]_vars

-----------------------------------------------------------------------------
(* ReadReplayExt: replay streams *)

\* filter_map over iter(start..=end): the first block number from n up to end
\* whose record is Some (those that are None are skipped), end + 1 if none is.
RECURSIVE SkipMissing(_, _, _)
SkipMissing(d, n, end) ==
    IF n > end \/ GetReplayRecord(d, n).tag = "Some"
    THEN n
    ELSE SkipMissing(d, n + 1, end)

\* stream_from(start, end): asserts end <= latest (the call panics otherwise and
\* there is no stream), then returns the lazy stream over start..=end.
StreamFrom(start, end) ==
    /\ handle = "open"
    /\ stream.kind = "none"
    /\ \E latest \in LatestRecord(db) : end <= latest
    /\ stream' = [kind |-> "bounded", start |-> start, end |-> end,
                  current |-> start, out |-> <<>>, state |-> "active"]
    /\ UNCHANGED <<db, handle, result, signature_set, verifierVars, client,
                   gasVars, pipelineVars, stageVars>>

\* One poll of the stream_from stream: the next record that is Some is yielded,
\* or the range is exhausted and the stream ends.
PollStreamFrom ==
    /\ stream.kind = "bounded"
    /\ stream.state = "active"
    /\ LET block_num == SkipMissing(db, stream.current, stream.end)
       IN  stream' =
            IF block_num > stream.end
            THEN [stream EXCEPT !.current = block_num, !.state = "terminated"]
            ELSE [stream EXCEPT
                    !.current = block_num + 1,
                    !.out = Append(@, GetReplayRecord(db, block_num).record)]
    /\ UNCHANGED <<db, handle, result, signature_set, verifierVars, client,
                   gasVars, pipelineVars, stageVars>>

\* stream_from_forever(start): BlockStream {replays, current_block: start, sleep}
StreamFromForever(start) ==
    /\ handle = "open"
    /\ stream.kind = "none"
    /\ stream' = [kind |-> "forever", start |-> start, end |-> 0,
                  current |-> start, out |-> <<>>, state |-> "active"]
    /\ UNCHANGED <<db, handle, result, signature_set, verifierVars, client,
                   gasVars, pipelineVars, stageVars>>

\* BlockStream::poll_next: the record of current_block is yielded if it is
\* there; otherwise the 50 ms sleep is re-armed and the poll is Pending.
PollForever ==
    /\ stream.kind = "forever"
    /\ LET record == GetReplayRecord(db, stream.current)
       IN  stream' =
            IF record.tag = "Some"
            THEN [stream EXCEPT
                    !.current = @ + 1,
                    !.out = Append(@, record.record),
                    !.state = "active"]
            ELSE [stream EXCEPT !.state = "pending"]
    /\ UNCHANGED <<db, handle, result, signature_set, verifierVars, client,
                   gasVars, pipelineVars, stageVars>>

\* The storage with a reader streaming from it
StreamNext ==
    \/ \E node_version \in Versions : New(node_version)
    \/ \E record \in StreamRecords : append(record)
    \/ Crash
    \/ \E record \in StreamRecords : CrashDuringAppend(record)
    \/ \E start \in 0..(MaxBlock + 1), end \in 0..MaxBlock : StreamFrom(start, end)
    \/ PollStreamFrom
    \/ \E start \in 0..(MaxBlock + 1) : StreamFromForever(start)
    \/ PollForever

StreamSpec == Init /\ [][StreamNext]_vars

\* The poll timer keeps firing: a stream that can yield is polled again.
FairStreamSpec == Init /\ [][StreamNext]_vars /\ WF_vars(PollForever)

-----------------------------------------------------------------------------
(* Properties of the replay storage *)

\* latest_record() as a number; -1 stands for "no record"
Latest(d) == UnwrapOr(LatestRecord(d), -1)

\* The block numbers get_replay_record returns Some for
Readable(d) == {n \in 0..(MaxBlock + 1) : GetReplayRecord(d, n).tag = "Some"}

\* The column families keyed by block number
RecordFamilies == ColumnFamilies \ {"latest"}

\* The column families holding an entry for block n
FamiliesWith(d, n) == {cf \in RecordFamilies : ToBeBytes(n) \in DOMAIN d[cf]}

\* r1 and r2 agree on the five fields the storage keeps in column families
SameStoredFields(r1, r2) ==
    /\ r1.block_context = r2.block_context
    /\ r1.starting_l1_priority_id = r2.starting_l1_priority_id
    /\ r1.transactions = r2.transactions
    /\ r1.node_version = r2.node_version
    /\ r1.block_output_hash = r2.block_output_hash

\* C1: while the storage is open, the block numbers get_replay_record returns
\* Some for are exactly 0..latest_record().
C1_ReadableIsPrefix ==
    handle = "open" =>
        /\ LatestRecord(db) # None
        /\ Readable(db) = 0..Latest(db)

\* C2: append of a record whose block number is above latest_record() + 1
\* panics and leaves the storage as it was.
C2_GapAppendPanics ==
    [][\A record \in Records :
        (append(record) /\ record.block_context.block_number > Latest(db) + 1)
            => (result' = "panic" /\ db' = db)]_vars

\* C3: append of a record whose block number is at most latest_record() takes
\* the "already exists" return and changes neither latest_record() nor any
\* get_replay_record(n), whatever the record's content (empty transactions too).
C3_ExistingAppendReturnsFalse ==
    [][\A record \in Records :
        (append(record) /\ record.block_context.block_number <= Latest(db))
            => /\ result' = "exists"
               /\ LatestRecord(db') = LatestRecord(db)
               /\ \A n \in 0..(MaxBlock + 1) :
                    GetReplayRecord(db', n) = GetReplayRecord(db, n)]_vars

\* Block N of record is fully present in d: it is the latest, and
\* get_replay_record(N) returns it with every stored field of record.
FullyPresent(d, record) ==
    LET N == record.block_context.block_number
        got == GetReplayRecord(d, N)
    IN  /\ LatestRecord(d) = Some(N)
        /\ got.tag = "Some"
        /\ SameStoredFields(got.record, record)
        /\ FamiliesWith(d, N) = RecordFamilies

\* Block N is entirely absent from d: below it the latest, no entry of it in
\* any column family.
EntirelyAbsent(d, N) ==
    /\ LatestRecord(d) # None
    /\ Latest(d) < N
    /\ GetReplayRecord(d, N).tag = "None"
    /\ FamiliesWith(d, N) = {}

\* C4: a crash during append of block N leaves, after restart, block N fully
\* present or entirely absent; and in no state does a block have entries in
\* some but not all of its column families.
C4_CrashAtomicity ==
    [][/\ \A record \in Records :
            CrashDuringAppend(record) =>
                \A node_version \in Versions :
                    LET restarted == NewStorage(db', node_version)
                    IN  \/ FullyPresent(restarted, record)
                        \/ EntirelyAbsent(restarted, record.block_context.block_number)
       /\ \A n \in 0..(MaxBlock + 1) :
            FamiliesWith(db', n) \in {{}, RecordFamilies}]_vars

\* The storage was reopened after a crash that interrupted an append.
C4_Witness ==
    /\ handle = "open"
    /\ result = "interrupted"
    /\ Latest(db) >= 1

\* C5: an append that adds a record raises latest_record() by exactly 1.
C5_LatestStepsByOne ==
    [][\A record \in Records :
        (append(record) /\ db' # db) => Latest(db') = Latest(db) + 1]_vars

\* C6: once new has returned, latest_record() is never None, and its value
\* never decreases, whatever is appended (and across crashes and restarts).
C6_LatestMonotone ==
    [][/\ handle' = "open" => LatestRecord(db') # None
       /\ LatestRecord(db) # None =>
            (LatestRecord(db') # None /\ Latest(db') >= Latest(db))]_vars

\* An append has just raised the latest record to 2 or more.
C6_Witness ==
    /\ handle = "open"
    /\ result = "appended"
    /\ Latest(db) >= 2

\* get_replay_record(n) keeps returning what it returned
StableRecords ==
    \A n \in 0..(MaxBlock + 1) :
        GetReplayRecord(db, n).tag = "Some" =>
            GetReplayRecord(db', n) = GetReplayRecord(db, n)

\* C7 as claimed: after append(r) added r, get_replay_record(r.block_number)
\* returns a record equal to r in all six fields, and what get_replay_record
\* returns for a block never changes.
C7_ReadBackEqualsAppended ==
    [][/\ \A record \in Records :
            (append(record) /\ result' = "appended") =>
                GetReplayRecord(db', record.block_context.block_number)
                    = [tag |-> "Some", record |-> record]
       /\ StableRecords]_vars

\* The timestamp of the record stored for block n - 1, 0 when there is none
StoredPreviousTimestamp(d, n) ==
    LET prev == GetReplayRecord(d, n - 1)
    IN  IF n > 0 /\ prev.tag = "Some"
        THEN prev.record.block_context.timestamp
        ELSE 0

\* C7 amended: after append(r) added r, get_replay_record(r.block_number)
\* returns r in block_context, starting_l1_priority_id, transactions,
\* node_version and block_output_hash, with previous_block_timestamp the
\* timestamp of the stored block before it (0 if none is stored); and what
\* get_replay_record returns for a block never changes.
C7_ReadBackStoredFields ==
    [][/\ \A record \in Records :
            (append(record) /\ result' = "appended") =>
                LET n == record.block_context.block_number
                    got == GetReplayRecord(db', n)
                IN  /\ got.tag = "Some"
                    /\ SameStoredFields(got.record, record)
                    /\ got.record.previous_block_timestamp
                        = StoredPreviousTimestamp(db', n)
       /\ StableRecords]_vars

\* A record was just appended right after a stored one of the other timestamp.
C7_Witness ==
    /\ handle = "open"
    /\ result = "appended"
    /\ LET n == Latest(db)
       IN  /\ n >= 2
           /\ GetReplayRecord(db, n - 1).tag = "Some"
           /\ GetReplayRecord(db, n - 1).record.block_context.timestamp
                # GetReplayRecord(db, n).record.block_context.timestamp

\* C8: new on an empty database writes the genesis record (block 0, no
\* transactions, zero output hash) and latest_record() becomes 0; on a
\* database that is not empty it writes nothing.
C8_NewWritesGenesisOnce ==
    [][(handle = "closed" /\ handle' = "open") =>
        IF db = EmptyDb
        THEN LET got == GetReplayRecord(db', 0)
             IN  /\ LatestRecord(db') = Some(0)
                 /\ got.tag = "Some"
                 /\ got.record.block_context.block_number = 0
                 /\ got.record.transactions = <<>>
                 /\ got.record.block_output_hash = B256_ZERO
                 /\ Readable(db') = {0}
        ELSE db' = db]_vars

\* The storage was reopened, without an interrupted append, on records beyond genesis.
C8_Witness ==
    /\ handle = "open"
    /\ result = "none"
    /\ Latest(db) >= 1

-----------------------------------------------------------------------------
(* Properties of the replay streams *)

\* The block numbers of the records a stream has yielded, in order
YieldedNumbers == [i \in 1..Len(stream.out) |-> stream.out[i].block_context.block_number]

\* C9: stream_from(start, end) yields the records of start, start + 1, ..., end,
\* each once, in this order, none skipped, and then ends.
C9_StreamFromYieldsRange ==
    stream.kind = "bounded" =>
        /\ \A i \in 1..Len(stream.out) : YieldedNumbers[i] = stream.start + i - 1
        /\ stream.state = "terminated" =>
            Len(stream.out) =
                (IF stream.end >= stream.start THEN stream.end - stream.start + 1 ELSE 0)

\* C10: stream_from_forever(start) yields consecutive block numbers from start
\* on, never ends, and every record of a block n >= start in the storage is
\* eventually yielded (while the stream lives: a crash ends it).
C10_ForeverYieldsEveryRecord ==
    /\ [](stream.kind = "forever" =>
            /\ stream.state # "terminated"
            /\ \A i \in 1..Len(stream.out) : YieldedNumbers[i] = stream.start + i - 1)
    /\ \A n \in 0..MaxBlock :
        (stream.kind = "forever" /\ stream.start <= n
            /\ GetReplayRecord(db, n).tag = "Some")
        ~> (stream.kind # "forever"
            \/ \E i \in 1..Len(stream.out) : YieldedNumbers[i] = n)

-----------------------------------------------------------------------------
(* BatchSignatureSet under push calls *)

\* set.push(signature) on the set under test
push(signature) ==
    /\ signature_set' =
            [set |-> Push(signature_set.set, signature).set,
             result |-> Push(signature_set.set, signature).result,
             argument |-> signature]
    /\ UNCHANGED <<walVars, verifierVars, client,
                   gasVars, pipelineVars, stageVars>>

SignatureSetNext == \E signature \in ValidatedSignatures : push(signature)

SignatureSetSpec == Init /\ [][SignatureSetNext]_vars

\* No two entries of the set have the same signer
SignersDistinct(set) ==
    \A i, j \in 1..Len(set) : set[i].signer = set[j].signer => i = j

\* C12: starting from the empty set, after every push no two entries have the
\* same signer; a push whose signer is already in the set returns
\* DuplicatedSignature and leaves the set as it was, whatever the signature
\* bytes; any other push returns Ok and appends the entry.
C12_PushKeepsSignersDistinct ==
    [][\A signature \in ValidatedSignatures :
        push(signature) =>
            /\ SignersDistinct(signature_set.set)
            /\ SignersDistinct(signature_set'.set)
            /\ IF \E i \in 1..Len(signature_set.set) :
                        signature_set.set[i].signer = signature.signer
               THEN /\ signature_set'.result = "DuplicatedSignature"
                    /\ signature_set'.set = signature_set.set
               ELSE /\ signature_set'.result = "Ok"
                    /\ signature_set'.set = Append(signature_set.set, signature)]_vars

\* The last push was refused for a signer whose entry in the set has other
\* signature bytes than the ones pushed.
C12_Witness ==
    /\ signature_set.result = "DuplicatedSignature"
    /\ Len(signature_set.set) >= 2
    /\ \E i \in 1..Len(signature_set.set) :
            /\ signature_set.set[i].signer = signature_set.argument.signer
            /\ signature_set.set[i].signature # signature_set.argument.signature

-----------------------------------------------------------------------------
(* Batch verification: requests, responses and the server's broadcast *)

\* BatchVerificationResult::Success(signature) / Refused(reason)
Success(signature) ==
    [tag |-> "Success", signature |-> Some(signature), reason |-> None]
Refused(reason) ==
    [tag |-> "Refused", signature |-> None, reason |-> Some(reason)]

\* BatchVerificationResponse {request_id, result}
BatchVerificationResponse(request_id, verdict) ==
    [request_id |-> request_id, result |-> verdict]

\* BatchVerificationRequest built by send_verification_request
BatchVerificationRequest(batch_envelope, request_id) ==
    [batch_number |-> batch_envelope.batch_number,
     first_block_number |-> batch_envelope.first_block_number,
     last_block_number |-> batch_envelope.last_block_number,
     commit_data |-> batch_envelope.commit_info,
     request_id |-> request_id]

\* BatchVerificationServer::send_verification_request(batch_envelope,
\* request_id, required_clients): the result and the server afterwards.
\* clients_count: what receiver_count() returns, the clients connected now;
\* disconnected: every receiver went away between receiver_count() and send().
SendVerificationRequest(srv, batch_envelope, request_id, required_clients, clients_count, disconnected) ==
    LET request == BatchVerificationRequest(batch_envelope, request_id)
    IN  IF clients_count < required_clients
        THEN [result |-> [kind |-> "NotEnoughClients", clients |-> clients_count,
                          required |-> required_clients],
              server |-> srv]
        ELSE IF disconnected
        THEN [result |-> [kind |-> "SendError", clients |-> 0, required |-> 0],
              server |-> srv]
        ELSE [result |-> [kind |-> "Ok", clients |-> 0, required |-> 0],
              server |-> [srv EXCEPT !.requests = Append(@, request)]]

\* a conversion that makes every error of the broadcast Internal
EveryErrorInternal(err) == Internal

\* impl From<BatchVerificationRequestError> for BatchVerificationError
FromRequestError(err) ==
    IF err.kind = "NotEnoughClients"
    THEN NotEnoughSigners(err.clients, err.required)
    ELSE Internal

-----------------------------------------------------------------------------
(* Batch verification: BatchVerifier *)

\* mpsc::channel(capacity) as the DashMap entry of a request: the queue of the
\* channel and whether its receiver still exists
Channel(capacity, receiver) ==
    [queue |-> <<>>, capacity |-> capacity, receiver |-> receiver]

\* DashMap::insert / DashMap::remove
Insert(channels, request_id, channel) ==
    [k \in DOMAIN channels \cup {request_id} |->
        IF k = request_id THEN channel ELSE channels[k]]
Remove(channels, request_id) ==
    [k \in DOMAIN channels \ {request_id} |-> channels[k]]

\* process_response without the accepted_signers check
ProcessResponseAnySigner(commit_data, response) ==
    IF response.result.tag = "Refused"
    THEN None
    ELSE VerifySignature(CHOOSE s \in response.result.signature : TRUE, commit_data)

\* BatchVerifier::process_response(commit_data, request_id, response):
\* Some(validated signature), or None for a refusal, an invalid signature or
\* a signer outside accepted_signers
ProcessResponse(commit_data, response) ==
    IF response.result.tag = "Refused"
    THEN None
    ELSE LET validated ==
                VerifySignature(CHOOSE s \in response.result.signature : TRUE,
                                commit_data)
         IN  {v \in validated : v.signer \in AcceptedSigners}

\* the test that never ends the collection at the threshold
MoreThanEnough(responses, threshold) == Len(responses) > threshold

\* responses.len() >= self.config.threshold
Enough(responses, threshold) == Len(responses) >= threshold

\* the test for a deadline that never elapses
NeverElapsed(remaining_time) == FALSE

\* remaining_time <= Duration::from_secs(0), and the timeout of recv
Elapsed(remaining_time) == remaining_time <= 0

\* The outer loop of run after a failed attempt: sleep and retry while the
\* error is retryable and the envelope's deadline is ahead, else return it
AfterAttempt(v, err) ==
    IF Retryable(err) /\ v.total_remaining > 0
    THEN [v EXCEPT !.pc = "sleeping", !.sleep_remaining = retry_delay,
                   !.error = err]
    ELSE [v EXCEPT !.pc = "failed", !.error = err]

\* batch_envelope.with_signatures(BatchSignatureData::Signed {signatures})
WithSignatures(batch_envelope, signatures) ==
    [batch_number |-> batch_envelope.batch_number,
     commit_info |-> batch_envelope.commit_info,
     signatures |-> signatures]

\* a counter that hands out its value and keeps it
FetchSame(counter) == [previous |-> counter, counter |-> counter]

\* request_id_counter.fetch_add(1, Ordering::SeqCst): the value before the
\* addition, and the counter after it
FetchAdd(counter) == [previous |-> counter, counter |-> counter + 1]

\* The sequencer's batch verification step as it starts, for every threshold
VerifierInit ==
    /\ WalInit
    /\ signature_set = NoSignatureSet
    /\ client = NoClient
    /\ config \in [threshold : 0..MaxThreshold]
    /\ verifier = NewVerifier
    /\ response_channels = NoChannels
    /\ server = NewServer
    /\ downstream = <<>>
    /\ GasIdle
    /\ PipelineIdle
    /\ StagesIdle

\* run: batch_for_signing_receiver.recv() returns the next envelope; its
\* deadline is total_timeout from now
RecvBatch ==
    /\ verifier.pc = "idle"
    /\ verifier.received < MaxBatches
    /\ verifier' = [verifier EXCEPT
            !.pc = "attempt",
            !.envelope = FirstBatch + verifier.received,
            !.received = @ + 1,
            !.total_remaining = total_timeout,
            !.error = NoError]
    /\ UNCHANGED <<walVars, signature_set, client, config, response_channels,
                   server, downstream,
                   gasVars, pipelineVars, stageVars>>

\* collect_batch_verification_signatures up to its collection loop: a fresh
\* request_id, its channel (mpsc::channel panics on capacity 0) registered,
\* the request broadcast; an error of the broadcast returns from the attempt
\* (the channel stays registered, its receiver is gone). With threshold 0
\* the panic comes before the clients are counted.
StartAttempt(clients_count, disconnected) ==
    /\ verifier.pc = "attempt"
    /\ config.threshold = 0 => clients_count = 0
    /\ disconnected => (config.threshold > 0 /\ clients_count >= config.threshold)
    /\ LET fetched == FetchAdd(verifier.request_id_counter)
           request_id == fetched.previous
           counted == [verifier EXCEPT !.request_id_counter = fetched.counter,
                                       !.request_id = request_id,
                                       !.responses = NewSignatureSet,
                                       !.discarded = 0]
           sent == SendVerificationRequest(server,
                        BatchForSigning(verifier.envelope), request_id,
                        config.threshold, clients_count, disconnected)
       IN  IF config.threshold = 0
           THEN /\ verifier' = [counted EXCEPT !.pc = "panicked"]
                /\ UNCHANGED <<response_channels, server>>
           ELSE /\ server' = sent.server
                /\ IF sent.result.kind = "Ok"
                   THEN /\ verifier' = [counted EXCEPT
                                !.pc = "collecting",
                                !.remaining_time = request_timeout]
                        /\ response_channels' =
                                Insert(response_channels, request_id,
                                       Channel(config.threshold, "open"))
                   ELSE /\ verifier' =
                                AfterAttempt(counted, FromRequestError(sent.result))
                        /\ response_channels' =
                                Insert(response_channels, request_id,
                                       Channel(config.threshold, "dropped"))
    /\ UNCHANGED <<walVars, signature_set, client, config, downstream,
                   gasVars, pipelineVars, stageVars>>

\* One turn of the collection loop on a response received before the
\* deadline: it is dropped (refused, invalid, unknown signer, duplicate), or
\* its validated signature is pushed; at the threshold the channel is
\* removed and run sends the signed envelope downstream
ReceiveResponse ==
    /\ verifier.pc = "collecting"
    /\ ~Elapsed(verifier.remaining_time)
    /\ response_channels[verifier.request_id].queue # <<>>
    /\ LET request_id == verifier.request_id
           batch_envelope == BatchForSigning(verifier.envelope)
           response == Head(response_channels[request_id].queue)
           received == [response_channels EXCEPT ![request_id].queue = Tail(@)]
           validated == ProcessResponse(batch_envelope.commit_info, response)
           pushed == Push(verifier.responses, CHOOSE v \in validated : TRUE)
       IN  IF validated = None \/ pushed.result # "Ok"
           THEN /\ verifier' = [verifier EXCEPT !.discarded = 1]
                /\ response_channels' = received
                /\ UNCHANGED downstream
           ELSE IF Enough(pushed.set, config.threshold)
           THEN /\ verifier' = [verifier EXCEPT
                        !.pc = "idle",
                        !.responses = pushed.set,
                        !.remaining_time = 0,
                        !.total_remaining = 0]
                /\ response_channels' = Remove(received, request_id)
                /\ downstream' = Append(downstream,
                        WithSignatures(batch_envelope, pushed.set))
           ELSE /\ verifier' = [verifier EXCEPT !.responses = pushed.set]
                /\ response_channels' = received
                /\ UNCHANGED downstream
    /\ UNCHANGED <<walVars, signature_set, client, config, server,
                   gasVars, pipelineVars, stageVars>>

\* The deadline of the attempt has elapsed: Timeout. The receiver is dropped
\* with what its queue holds; the sender stays in the map.
AttemptTimeout ==
    /\ verifier.pc = "collecting"
    /\ Elapsed(verifier.remaining_time)
    /\ verifier' = AfterAttempt(verifier, Timeout)
    /\ response_channels' = [response_channels EXCEPT
            ![verifier.request_id] = Channel(config.threshold, "dropped")]
    /\ UNCHANGED <<walVars, signature_set, client, config, server, downstream,
                   gasVars, pipelineVars, stageVars>>

\* tokio::time::sleep(retry_delay) is over: the next attempt
Wake ==
    /\ verifier.pc = "sleeping"
    /\ verifier.sleep_remaining = 0
    /\ verifier' = [verifier EXCEPT !.pc = "attempt"]
    /\ UNCHANGED <<walVars, signature_set, client, config, response_channels,
                   server, downstream,
                   gasVars, pipelineVars, stageVars>>

Decrement(t) == IF t > 0 THEN t - 1 ELSE 0

\* One tick of the clock, while the verifier waits: for a response or for
\* the end of its sleep, and its timer has not fired. No time passes between
\* the end of a sleep, or the receipt of an envelope, and the start of the
\* attempt: run awaits nothing there.
Tick ==
    /\ \/ verifier.pc = "collecting" /\ verifier.remaining_time > 0
       \/ verifier.pc = "sleeping" /\ verifier.sleep_remaining > 0
    /\ verifier' = [verifier EXCEPT
            !.total_remaining = Decrement(@),
            !.remaining_time = Decrement(@),
            !.sleep_remaining = Decrement(@)]
    /\ UNCHANGED <<walVars, signature_set, client, config, response_channels,
                   server, downstream,
                   gasVars, pipelineVars, stageVars>>

\* The commit data a signer node whose blocks diverge computes for request
DivergedCommitData(request) ==
    BatchInfoNew([i \in 1..2 |-> Block(request.first_block_number + (i - 1), "other")],
                 ChainId, request.batch_number)

\* What a connected peer can answer to request: a refusal, a signature of
\* any key over the request's commit data, a signature over the commit data
\* of diverging blocks, or bytes that are no signature; under the request_id
\* of the request or under its batch_number (the two client implementations)
Answers(request) ==
    {BatchVerificationResponse(id, answer) :
        id \in {request.request_id, request.batch_number},
        answer \in
            {Refused("refused"), Success(MalformedSignature),
             Success(SignBatch(DivergedCommitData(request), "0xA", 0))}
            \cup {Success(SignBatch(request.commit_data, s, 0)) : s \in Signers}}

\* The requests still answered: the last two broadcast
Pending(requests) ==
    {requests[i] : i \in {j \in 1..Len(requests) : j >= Len(requests) - 1}}

\* a lookup that ignores the request_id: the channel registered last
LastChannel(channels, response) ==
    IF DOMAIN channels = {}
    THEN None
    ELSE Some(CHOOSE k \in DOMAIN channels : \A j \in DOMAIN channels : j <= k)

\* response_channels.get(&request_id)
GetChannel(channels, response) ==
    IF response.request_id \in DOMAIN channels
    THEN Some(response.request_id)
    ELSE None

\* sender.send(response).await has to wait: the channel is full and its
\* receiver alive
Blocked(channels, response) ==
    \E k \in GetChannel(channels, response) :
        /\ channels[k].receiver = "open"
        /\ Len(channels[k].queue) >= channels[k].capacity

\* One turn of run_batch_response_processor on response: sent to the channel
\* registered under its request_id (the send fails if the receiver is gone),
\* dropped if there is none
Route(channels, response) ==
    LET sender == GetChannel(channels, response)
    IN  IF sender = None
        THEN channels
        ELSE LET k == CHOOSE k \in sender : TRUE
             IN  IF channels[k].receiver = "open"
                 THEN [channels EXCEPT ![k].queue = Append(@, response)]
                 ELSE channels

\* handle_client forwards what it reads from its client to response_sender;
\* the processor receives response and routes it
RouteResponse(response) ==
    /\ ~Blocked(response_channels, response)
    /\ response_channels' = Route(response_channels, response)
    /\ UNCHANGED <<walVars, signature_set, client, config, verifier, server,
                   downstream,
                   gasVars, pipelineVars, stageVars>>

VerifierNext ==
    \/ RecvBatch
    \/ \E clients_count \in 0..MaxClients, disconnected \in BOOLEAN :
            StartAttempt(clients_count, disconnected)
    \/ ReceiveResponse
    \/ AttemptTimeout
    \/ Wake
    \/ Tick
    \/ \E request \in Pending(server.requests) :
            \E response \in Answers(request) : RouteResponse(response)

VerifierSpec == VerifierInit /\ [][VerifierNext]_vars

\* The clock advances and the verifier's task is polled when it can run
FairVerifierSpec ==
    /\ VerifierInit
    /\ [][VerifierNext]_vars
    /\ WF_vars(Tick)
    /\ WF_vars(\E clients_count \in 0..MaxClients, disconnected \in BOOLEAN :
                    StartAttempt(clients_count, disconnected))
    /\ WF_vars(AttemptTimeout)
    /\ WF_vars(Wake)

-----------------------------------------------------------------------------
(* Properties of the batch verifier *)

\* The verifier is working on an envelope
Processing == verifier.pc \in {"attempt", "collecting", "sleeping"}

\* The envelope the verifier is working on (or worked on last) is among those sent
CurrentEnvelopeSent ==
    \E i \in 1..Len(downstream) : downstream[i].batch_number = verifier.envelope

\* C11: every envelope sent downstream carries at least threshold signatures,
\* each entry's signer is the one recovered from the entry's signature over
\* the commit data of that batch and is in accepted_signers, and the signers
\* are pairwise distinct; an envelope whose processing failed is not sent.
C11_SentEnvelopesAreSigned ==
    /\ \A i \in 1..Len(downstream) :
        LET signatures == downstream[i].signatures
            commit_data == BatchForSigning(downstream[i].batch_number).commit_info
        IN  /\ Len(signatures) >= config.threshold
            /\ \A j \in 1..Len(signatures) :
                /\ VerifySignature(signatures[j].signature, commit_data)
                        = Some(signatures[j])
                /\ signatures[j].signer \in AcceptedSigners
            /\ SignersDistinct(signatures)
    /\ verifier.pc \in {"attempt", "collecting", "sleeping", "failed", "panicked"}
            => ~CurrentEnvelopeSent

\* An envelope was sent with two signatures after its attempt had dropped a response.
C11_Witness ==
    /\ downstream # <<>>
    /\ config.threshold = 2
    /\ verifier.pc = "idle"
    /\ verifier.discarded = 1

\* C13: the signature set of every envelope sent downstream (the set a
\* successful attempt returned) has at most threshold entries.
C13_SetAtMostThreshold ==
    \A i \in 1..Len(downstream) :
        Len(downstream[i].signatures) <= config.threshold

\* With threshold 1 an envelope was sent, with one signature.
C13_Witness ==
    /\ config.threshold = 1
    /\ verifier.pc = "idle"
    /\ \E i \in 1..Len(downstream) : Len(downstream[i].signatures) = 1

\* Every response queued in a channel carries the request_id the channel is
\* registered under
QueuedUnderOwnId(channels) ==
    \A k \in DOMAIN channels :
        \A i \in 1..Len(channels[k].queue) : channels[k].queue[i].request_id = k

\* A step on which a response is put in a channel: the processor routed it
QueueGrows ==
    \E k \in DOMAIN response_channels \cap DOMAIN response_channels' :
        Len(response_channels'[k].queue) > Len(response_channels[k].queue)

\* C17: the processor delivers a response to no channel but the one
\* registered under its request_id, and drops it if none is; routing counts
\* nothing toward an attempt, and an attempt counts only what its own channel
\* delivers.
C17_RoutedByRequestId ==
    /\ [](/\ QueuedUnderOwnId(response_channels)
          /\ \A request \in Pending(server.requests) :
                \A response \in Answers(request) :
                    LET routed == Route(response_channels, response)
                    IN  /\ DOMAIN routed = DOMAIN response_channels
                        /\ \A k \in DOMAIN response_channels :
                            IF k = response.request_id
                            THEN routed[k].queue \in
                                    {response_channels[k].queue,
                                     Append(response_channels[k].queue, response)}
                            ELSE routed[k] = response_channels[k])
    /\ [][/\ QueueGrows =>
                /\ verifier' = verifier
                /\ downstream' = downstream
                /\ DOMAIN response_channels' = DOMAIN response_channels
                /\ \A k \in DOMAIN response_channels :
                    \/ response_channels'[k] = response_channels[k]
                    \/ /\ Len(response_channels'[k].queue) =
                                Len(response_channels[k].queue) + 1
                       /\ response_channels'[k].queue[
                                Len(response_channels'[k].queue)].request_id = k
                       /\ response_channels'[k] = [response_channels[k] EXCEPT
                                !.queue = Append(@, response_channels'[k].queue[
                                                Len(response_channels'[k].queue)])]
          /\ verifier'.responses # verifier.responses /\ verifier'.responses # <<>> =>
                /\ verifier.request_id \in DOMAIN response_channels
                /\ response_channels[verifier.request_id].queue # <<>>
                /\ Head(response_channels[verifier.request_id].queue).result.signature
                    = Some(verifier'.responses[Len(verifier'.responses)].signature)]_vars

\* A response waits in the channel of the current attempt while the channel
\* of an earlier attempt is still registered.
C17_Witness ==
    /\ verifier.pc = "collecting"
    /\ Cardinality(DOMAIN response_channels) >= 2
    /\ response_channels[verifier.request_id].queue # <<>>

C19_DeadlineFixed ==
    [][/\ verifier.pc = "attempt" /\ verifier'.pc = "collecting" =>
            verifier'.remaining_time = request_timeout
       /\ verifier.pc = "collecting" /\ verifier'.pc = "collecting" =>
            verifier'.remaining_time =
                IF Tick THEN Decrement(verifier.remaining_time)
                        ELSE verifier.remaining_time
       /\ verifier.pc = "collecting" /\ verifier.remaining_time = 0 =>
            /\ Len(verifier.responses) < config.threshold
            /\ verifier'.responses = verifier.responses
            /\ downstream' = downstream
            /\ verifier'.pc # "collecting" =>
                (verifier'.error = Timeout /\ verifier'.pc \in {"sleeping", "failed"})]_vars

\* An attempt that had dropped a response ended with Timeout.
C19_Witness ==
    /\ verifier.pc \in {"sleeping", "failed"}
    /\ verifier.error = Timeout
    /\ verifier.discarded = 1

\* The steps of run on one envelope, as C20 describes them
RetryLoopSteps ==
    /\ verifier.pc = "attempt" /\ verifier'.pc # "attempt" =>
            (verifier'.responses = NewSignatureSet /\ verifier'.discarded = 0)
    /\ Processing /\ verifier'.pc = "idle" =>
            /\ verifier.pc = "collecting"
            /\ Len(verifier'.responses) >= config.threshold
            /\ Len(verifier.responses) < config.threshold
            /\ downstream' = Append(downstream,
                    WithSignatures(BatchForSigning(verifier.envelope),
                                   verifier'.responses))
    /\ Processing /\ verifier'.pc = "sleeping" /\ verifier.pc # "sleeping" =>
            /\ verifier'.error.kind \in {"Timeout", "NotEnoughSigners"}
            /\ verifier.total_remaining > 0
            /\ verifier'.sleep_remaining = retry_delay
    /\ verifier.pc = "sleeping" /\ verifier'.pc # "sleeping" =>
            (verifier.sleep_remaining = 0 /\ verifier'.pc = "attempt")
    /\ Processing /\ verifier'.pc = "failed" =>
            \/ verifier'.error = Internal
            \/ /\ verifier'.error.kind \in {"Timeout", "NotEnoughSigners"}
               /\ verifier.total_remaining = 0
    /\ Processing /\ verifier'.pc # "idle" => downstream' = downstream
    /\ verifier.pc \in {"failed", "panicked"} =>
            (verifier' = verifier /\ downstream' = downstream)

AttemptRuns ==
    /\ verifier.pc = "collecting"
    /\ verifier'.pc = "collecting"
    /\ verifier.remaining_time > 0
    /\ verifier'.remaining_time = verifier.remaining_time - 1

\* An attempt starts: it takes its request_id
AttemptStarts ==
    /\ verifier.pc = "attempt"
    /\ verifier'.pc # "attempt"

\* C21: total_timeout is an absolute deadline for an envelope: no attempt
\* starts once total_timeout has elapsed since the envelope was received,
\* and no time passes in a running attempt after that.
C21_TotalTimeoutIsAbsolute ==
    [][/\ AttemptStarts => verifier.total_remaining > 0
       /\ AttemptRuns => verifier.total_remaining > 0]_vars

\* The request ids in use: of the channels registered and the requests broadcast
UsedRequestIds ==
    DOMAIN response_channels
        \cup {server.requests[i].request_id : i \in 1..Len(server.requests)}
        \cup ({verifier.request_id} \ {0})

\* C22: every attempt, a retry of the same batch included, takes a
\* request_id greater than every one used before, the first being 1; no two
\* attempts share one.
C22_RequestIdsIncrease ==
    [][AttemptStarts =>
        /\ verifier'.request_id > verifier.request_id
        /\ verifier.request_id = 0 => verifier'.request_id = 1
        /\ \A id \in UsedRequestIds : id < verifier'.request_id
        /\ \A id \in DOMAIN response_channels' \ DOMAIN response_channels :
                id = verifier'.request_id
        /\ Len(server'.requests) > Len(server.requests) =>
                server'.requests[Len(server'.requests)].request_id
                    = verifier'.request_id]_vars

\* The second attempt for the first envelope runs under request_id 2 while
\* the channel of the first attempt is still registered
C22_Witness ==
    /\ verifier.pc = "collecting"
    /\ verifier.received = 1
    /\ verifier.request_id = 2
    /\ DOMAIN response_channels = {1, 2}

-----------------------------------------------------------------------------
(* Batch verification: BatchVerificationClient *)

\* the main node sends at most MaxFrames frames to the client
MaxFrames == 2

\* The private key the signer node signs with (the address of its signer)
ClientSigner == "0xA"

\* BatchVerificationError of the client, and its Display text as the reason
\* of a refusal: the kind, the block number of MissingBlock, the mismatch
\* entries of BatchDataMismatch
NoFailure == [kind |-> "none", block |-> 0, mismatches |-> <<>>]
MissingBlock(block_number) ==
    [kind |-> "MissingBlock", block |-> block_number, mismatches |-> <<>>]
TreeError == [kind |-> "TreeError", block |-> 0, mismatches |-> <<>>]
BatchDataMismatch(mismatches) ==
    [kind |-> "BatchDataMismatch", block |-> 0, mismatches |-> mismatches]

\* The blocks first..=last are looked up in block_storage in ascending
\* order; the first one that is missing, or whose tree data has no root
\* info, ends the collect with its error
RECURSIVE CollectBlocks(_, _, _)
CollectBlocks(block_storage, block_number, last) ==
    IF block_number > last
    THEN NoFailure
    ELSE IF block_number \notin DOMAIN block_storage
    THEN MissingBlock(block_number)
    ELSE IF block_storage[block_number].root_info = "Err"
    THEN TreeError
    ELSE CollectBlocks(block_storage, block_number + 1, last)

\* What a mismatch entry prints of a field: the value ({} and {:?}), but of
\* operatorDAInput the length in bytes
Printed(field, batch_info) ==
    IF field = "operatorDAInput"
    THEN <<Len(batch_info[field])>>
    ELSE <<batch_info[field]>>

\* The value of a field, as a sequence
Value(field, batch_info) ==
    IF field = "operatorDAInput"
    THEN batch_info[field]
    ELSE <<batch_info[field]>>

\* mismatches: one entry "<field>: local=.., remote=.." per field that
\* differs, in the order of the comparisons
RECURSIVE MismatchesFrom(_, _, _)
MismatchesFrom(i, local, remote) ==
    IF i > Len(CommitFields)
    THEN <<>>
    ELSE LET field == CommitFields[i]
             rest == MismatchesFrom(i + 1, local, remote)
         IN  IF local[field] # remote[field]
             THEN <<[field |-> field,
                     local |-> Printed(field, local),
                     remote |-> Printed(field, remote)]>> \o rest
             ELSE rest

Mismatches(local, remote) == MismatchesFrom(1, local, remote)

\* The blocks of the request, as stored
StoredBlocks(block_storage, request) ==
    [i \in 1..((request.last_block_number - request.first_block_number) + 1) |->
        block_storage[request.first_block_number + (i - 1)]]

Ok(value) == [tag |-> "Ok", value |-> Some(value), error |-> NoFailure]
Err(error) == [tag |-> "Err", value |-> None, error |-> error]

\* handle_verification_request that signs whatever the request carries
SignUncompared(block_storage, request) ==
    LET failure == CollectBlocks(block_storage, request.first_block_number,
                                 request.last_block_number)
    IN  IF failure # NoFailure
        THEN Err(failure)
        ELSE Ok(SignBatch(request.commit_data, ClientSigner, 0))

\* BatchVerificationClient::handle_verification_request of
\* lib/batch_verification: Ok(signature over request.commit_data) or Err
HandleVerificationRequest(block_storage, request) ==
    LET failure == CollectBlocks(block_storage, request.first_block_number,
                                 request.last_block_number)
    IN  IF failure # NoFailure
        THEN Err(failure)
        ELSE LET commit_batch_info ==
                    BatchInfoNew(StoredBlocks(block_storage, request), ChainId,
                                 request.batch_number)
             IN  IF commit_batch_info # request.commit_data
                 THEN Err(BatchDataMismatch(
                            Mismatches(commit_batch_info, request.commit_data)))
                 ELSE Ok(SignBatch(request.commit_data, ClientSigner, 0))

\* sign_batch_verification of node/bin: the signer's signature over the text
\* "batch_number:first_block_number:last_block_number:request_id"
SignBatchVerification(request) ==
    [signer |-> ClientSigner,
     message |-> <<request.batch_number, request.first_block_number,
                   request.last_block_number, request.request_id>>,
     nonce |-> 0]

\* BatchVerificationClient::handle_verification_request of node/bin: the
\* commit info is computed and not compared; Ok(response) or Err
HandleVerificationRequestNodeBin(block_storage, request) ==
    LET failure == CollectBlocks(block_storage, request.first_block_number,
                                 request.last_block_number)
    IN  IF failure # NoFailure
        THEN Err(failure)
        ELSE Ok(BatchVerificationResponse(request.request_id,
                    Success(SignBatchVerification(request))))

\* What one turn of the run loop of lib/batch_verification writes to the
\* socket for a decoded message: a response under the message's batch_number
RunLib(block_storage, message) ==
    LET batch_number == message.batch_number
        handled == HandleVerificationRequest(block_storage, message)
    IN  IF handled.tag = "Ok"
        THEN <<BatchVerificationResponse(batch_number,
                    Success(CHOOSE s \in handled.value : TRUE))>>
        ELSE <<BatchVerificationResponse(batch_number, Refused(handled.error))>>

\* What one turn of the run loop of node/bin writes: the response if the
\* request was approved, nothing if it failed
RunNodeBin(block_storage, message) ==
    LET handled == HandleVerificationRequestNodeBin(block_storage, message)
    IN  IF handled.tag = "Ok"
        THEN <<CHOOSE r \in handled.value : TRUE>>
        ELSE <<>>

\* A frame the client reads: a decoded request, or bytes that do not decode
Decoded(request) == [tag |-> "Ok", request |-> Some(request)]
Undecodable == [tag |-> "Err", request |-> None]

\* The commit data of the envelope with its batchNumber raised by one
WrongBatchNumber(commit_data) ==
    [commit_data EXCEPT !.batchNumber = @ + 1]

\* The requests the main node sends for the first batch: under a request_id
\* that is or is not the batch number, with the commit data of the envelope
\* or with one of another batch number
ClientRequests ==
    {[BatchVerificationRequest(BatchForSigning(FirstBatch), id)
        EXCEPT !.commit_data = commit_data] :
        id \in {1, FirstBatch},
        commit_data \in {BatchForSigning(FirstBatch).commit_info,
                         WrongBatchNumber(BatchForSigning(FirstBatch).commit_info)}}

Frames == {Decoded(request) : request \in ClientRequests} \cup {Undecodable}

\* The blocks the signer node's pipeline can hand to the client
ClientBlocks ==
    {Block(n, fork) :
        n \in FirstBlock(FirstBatch)..LastBlock(FirstBatch), fork \in BlockForks}

ClientInit ==
    /\ WalInit
    /\ signature_set = NoSignatureSet
    /\ VerifierIdle
    /\ client \in {NewClient(variant) : variant \in ClientVariants}
    /\ GasIdle
    /\ PipelineIdle
    /\ StagesIdle

\* input.recv() yields a block: it is stored under its number
InsertBlock(block) ==
    /\ client.state = "connected"
    /\ client' = [client EXCEPT !.block_storage =
            [n \in DOMAIN @ \cup {block.number} |->
                IF n = block.number THEN block ELSE @[n]]]
    /\ UNCHANGED <<walVars, signature_set, verifierVars,
                   gasVars, pipelineVars, stageVars>>

\* The main node writes a frame to the connection
ServerSends(frame) ==
    /\ client.state = "connected"
    /\ client.frames < MaxFrames
    /\ client' = [client EXCEPT !.reader = Append(@, frame), !.frames = @ + 1]
    /\ UNCHANGED <<walVars, signature_set, verifierVars,
                   gasVars, pipelineVars, stageVars>>

\* reader.next() yields a frame: a request is handled and answered, bytes
\* that do not decode are logged and ignored
HandleMessage ==
    /\ client.state = "connected"
    /\ client.reader # <<>>
    /\ LET server_message == Head(client.reader)
           written ==
                IF server_message.tag = "Err"
                THEN <<>>
                ELSE LET message == CHOOSE m \in server_message.request : TRUE
                     IN  IF client.variant = "lib"
                         THEN RunLib(client.block_storage, message)
                         ELSE RunNodeBin(client.block_storage, message)
       IN  client' = [client EXCEPT
                !.reader = Tail(@),
                !.writer = @ \o written]
    /\ UNCHANGED <<walVars, signature_set, verifierVars,
                   gasVars, pipelineVars, stageVars>>

\* reader.next() yields None (the main node closed the connection) or
\* input.recv() yields None (the pipeline stops): run returns
Stop ==
    /\ client.state = "connected"
    /\ client' = [client EXCEPT !.state = "stopped"]
    /\ UNCHANGED <<walVars, signature_set, verifierVars,
                   gasVars, pipelineVars, stageVars>>

ClientNext ==
    \/ \E block \in ClientBlocks : InsertBlock(block)
    \/ \E frame \in Frames : ServerSends(frame)
    \/ HandleMessage
    \/ Stop

ClientSpec == ClientInit /\ [][ClientNext]_vars

\* One turn of the run loop on a frame: the frame at the head of the
\* connection is consumed
Handles ==
    /\ client.state = "connected"
    /\ client.reader # <<>>
    /\ client'.reader = Tail(client.reader)

\* The request of the frame at the head of the connection
HeadRequest == CHOOSE request \in Head(client.reader).request : TRUE

\* A turn of the run loop on a decoded request
HandlesRequest == Handles /\ Head(client.reader).tag = "Ok"

\* The responses the turn writes
Written == SubSeq(client'.writer, Len(client.writer) + 1, Len(client'.writer))

\* The blocks of the request's range that are not in the local block map
MissingBlocks(request) ==
    {n \in request.first_block_number..request.last_block_number :
        n \notin DOMAIN client.block_storage}

\* The fields in which the commit info recomputed from the local blocks
\* differs from the request's commit_data
Differing(request) ==
    LET local == BatchInfoNew(StoredBlocks(client.block_storage, request),
                              ChainId, request.batch_number)
    IN  {field \in {CommitFields[i] : i \in 1..Len(CommitFields)} :
            local[field] # request.commit_data[field]}

\* C14: every response the client writes, Success or Refused, carries the
\* request_id of the request it answers, also when that request_id differs
\* from the request's batch_number.
C14_ResponseEchoesRequestId ==
    [][HandlesRequest =>
        \A i \in 1..Len(Written) :
            Written[i].request_id = HeadRequest.request_id]_vars

\* C15: the client of lib/batch_verification answers Success(signature) only
\* if every block of the range is in its block map and the commit info it
\* recomputes equals request.commit_data in every field; if a field differs
\* it answers Refused with a batch-data-mismatch reason that names each
\* differing field with its local and remote values, and no signature.
C15_MismatchNamesValues ==
    [][HandlesRequest /\ client.variant = "lib" =>
        /\ Len(Written) = 1
        /\ Written[1].result.tag = "Success" =>
                /\ MissingBlocks(HeadRequest) = {}
                /\ Differing(HeadRequest) = {}
        /\ ( /\ CollectBlocks(client.block_storage, HeadRequest.first_block_number,
                              HeadRequest.last_block_number) = NoFailure
             /\ Differing(HeadRequest) # {} ) =>
                LET local == BatchInfoNew(
                                StoredBlocks(client.block_storage, HeadRequest),
                                ChainId, HeadRequest.batch_number)
                    reason == CHOOSE r \in Written[1].result.reason : TRUE
                IN  /\ Written[1].result.tag = "Refused"
                    /\ Written[1].result.signature = None
                    /\ reason.kind = "BatchDataMismatch"
                    /\ \A field \in Differing(HeadRequest) :
                        \E i \in 1..Len(reason.mismatches) :
                            /\ reason.mismatches[i].field = field
                            /\ reason.mismatches[i].local = Value(field, local)
                            /\ reason.mismatches[i].remote =
                                    Value(field, HeadRequest.commit_data)]_vars

\* C15 as the code has it: the reason names each differing field with its
\* local and remote values, except operatorDAInput, of which it gives the
\* local and remote lengths in bytes.
C15_MismatchNamesValuesOrLengths ==
    [][HandlesRequest /\ client.variant = "lib" =>
        /\ Len(Written) = 1
        /\ Written[1].result.tag = "Success" =>
                /\ MissingBlocks(HeadRequest) = {}
                /\ Differing(HeadRequest) = {}
                /\ Written[1].result.signature =
                        Some(SignBatch(HeadRequest.commit_data, ClientSigner, 0))
        /\ ( /\ CollectBlocks(client.block_storage, HeadRequest.first_block_number,
                              HeadRequest.last_block_number) = NoFailure
             /\ Differing(HeadRequest) # {} ) =>
                LET local == BatchInfoNew(
                                StoredBlocks(client.block_storage, HeadRequest),
                                ChainId, HeadRequest.batch_number)
                    remote == HeadRequest.commit_data
                    reason == CHOOSE r \in Written[1].result.reason : TRUE
                IN  /\ Written[1].result.tag = "Refused"
                    /\ Written[1].result.signature = None
                    /\ reason.kind = "BatchDataMismatch"
                    /\ \A field \in Differing(HeadRequest) :
                        \E i \in 1..Len(reason.mismatches) :
                            /\ reason.mismatches[i].field = field
                            /\ IF field = "operatorDAInput"
                               THEN /\ reason.mismatches[i].local = <<Len(local[field])>>
                                    /\ reason.mismatches[i].remote = <<Len(remote[field])>>
                               ELSE /\ reason.mismatches[i].local = <<local[field]>>
                                    /\ reason.mismatches[i].remote = <<remote[field]>>]_vars

\* The client of lib/batch_verification has refused a request whose
\* operatorDAInput differs from the one it recomputed, and has approved another
C15_Witness ==
    /\ client.variant = "lib"
    /\ \E i \in 1..Len(client.writer) :
        /\ client.writer[i].result.tag = "Refused"
        /\ \E reason \in client.writer[i].result.reason :
            /\ reason.kind = "BatchDataMismatch"
            /\ \E j \in 1..Len(reason.mismatches) :
                reason.mismatches[j].field = "operatorDAInput"
    /\ \E i \in 1..Len(client.writer) : client.writer[i].result.tag = "Success"

\* C16: the client handles the requests one at a time in arrival order and
\* writes exactly one response for each decoded request before it reads the
\* next; when a block of the request's range is missing from its block map,
\* that response is Refused and names a missing block, and the client stays
\* connected.
C16_OneResponsePerRequest ==
    [][HandlesRequest =>
        /\ Len(Written) = 1
        /\ client'.state = "connected"
        /\ MissingBlocks(HeadRequest) # {} =>
            /\ Written[1].result.tag = "Refused"
            /\ \E reason \in Written[1].result.reason :
                /\ reason.kind = "MissingBlock"
                /\ reason.block \in MissingBlocks(HeadRequest)]_vars

-----------------------------------------------------------------------------
(* Gas adjuster: GasStatistics under add_samples calls *)

\* GasStatistics::new(max_samples, block, fee_history), for every max_samples
\* and every history of up to MaxSamples + 1 samples
StatisticsInit ==
    /\ WalInit
    /\ signature_set = NoSignatureSet
    /\ VerifierIdle
    /\ client = NoClient
    /\ PipelineIdle
    /\ StagesIdle
    /\ fee_history = NoFeeHistory
    /\ adjuster = NoAdjuster
    /\ \E max_samples \in 0..MaxSamples, history \in SeqsUpTo(Fees, MaxSamples + 1) :
        /\ statistics = GasStatisticsNew(max_samples, Len(history), history)
        /\ samples_added = history

\* statistics.add_samples(fees)
add_samples(fees) ==
    /\ Len(samples_added) + Len(fees) <= MaxAdded
    /\ statistics' = AddSamples(statistics, fees)
    /\ samples_added' = samples_added \o fees
    /\ UNCHANGED <<walVars, batchVars, fee_history, adjuster, pipelineVars, stageVars>>

StatisticsNext == \E fees \in SeqsUpTo(Fees, MaxBatch) : add_samples(fees)

StatisticsSpec == StatisticsInit /\ [][StatisticsNext]_vars

\* The number of samples of the window below, and not above, the value m
Below(samples, m) == Cardinality({i \in 1..Len(samples) : samples[i] < m})
NotAbove(samples, m) == Cardinality({i \in 1..Len(samples) : samples[i] <= m})

\* The element at the 0-based index floor(n/2) of the window sorted ascending
WindowMedian(samples) == Ascending(samples)[(Len(samples) \div 2) + 1]

\* C23 as claimed: after new and after every add_samples, median() is the
\* lower median of the window: of its n >= 1 values sorted ascending, the
\* one at the 0-based index floor((n-1)/2).
C23_LowerMedian ==
    statistics.samples # <<>> =>
        statistics.median_cached =
            Ascending(statistics.samples)[((Len(statistics.samples) - 1) \div 2) + 1]

\* C23 as the code has it: after new and after every add_samples, median()
\* is a value of the window with at most floor(n/2) values below it and more
\* than floor(n/2) values not above it: the lower median (the middle value)
\* for odd n, the upper of the two middle values for even n.
C23_UpperMedian ==
    statistics.samples # <<>> =>
        LET n == Len(statistics.samples)
            m == statistics.median_cached
        IN  /\ \E i \in 1..n : statistics.samples[i] = m
            /\ Below(statistics.samples, m) <= n \div 2
            /\ NotAbove(statistics.samples, m) > n \div 2
            /\ n % 2 = 1 => /\ Below(statistics.samples, m) <= (n - 1) \div 2
                            /\ NotAbove(statistics.samples, m) > (n - 1) \div 2

\* After older samples were dropped the window is [4, 8]: median() is 8
C23_Witness ==
    /\ statistics.samples = <<4, 8>>
    /\ Len(samples_added) = 5
    /\ statistics.median_cached = 8

\* C24: for a window of n >= 1 samples median() is the element at the 0-based
\* index floor(n/2) of the window sorted ascending: the middle element for
\* odd n, the upper of the two middle elements for even n; [8,4,4,10] gives
\* 8 and [6,4,7,8,4] gives 6.
C24_MedianIsElementAtHalf ==
    /\ statistics.samples # <<>> =>
            statistics.median_cached = WindowMedian(statistics.samples)
    /\ GasStatisticsNew(4, 4, <<8, 4, 4, 10>>).median_cached = 8
    /\ GasStatisticsNew(5, 5, <<6, 4, 7, 8, 4>>).median_cached = 6

\* A window of two different values in descending arrival order, after
\* add_samples calls that dropped older ones
C24_Witness ==
    /\ statistics.samples = <<8, 4>>
    /\ statistics.max_samples = 2
    /\ Len(samples_added) = 5
    /\ statistics.median_cached = 8

\* C25: the window holds the most recent min(samples added, max_samples)
\* values in arrival order, so it is never longer than max_samples, and the
\* cached median is the median of that window.
C25_WindowIsMostRecent ==
    LET total == Len(samples_added)
        kept == IF total < statistics.max_samples THEN total
                                                  ELSE statistics.max_samples
    IN  /\ statistics.samples = SubSeq(samples_added, (total - kept) + 1, total)
        /\ Len(statistics.samples) <= statistics.max_samples
        /\ kept > 0 =>
            statistics.median_cached =
                WindowMedian(SubSeq(samples_added, (total - kept) + 1, total))

\* More samples were added than the window holds, the last three being 6, 4, 8
C25_Witness ==
    /\ statistics.max_samples = 3
    /\ Len(samples_added) = 5
    /\ statistics.samples = <<6, 4, 8>>
    /\ statistics.median_cached = 6

-----------------------------------------------------------------------------
(* Gas adjuster: the fee history of the L1 provider *)

\* The block counts asked for: short ranges and ranges around the multiples
\* of the chunk size
BlockCounts ==
    {1, 2} \cup {k * FEE_HISTORY_MAX_REQUEST_CHUNK + d :
                     k \in 1..MaxChunks, d \in {-1, 0, 1, 2}}

\* The newest blocks asked for
UptoBlocks ==
    {0, 1} \cup {k * FEE_HISTORY_MAX_REQUEST_CHUNK + d :
                     k \in 1..(MaxChunks + 1), d \in {-1, 0, 1}}

FeeHistoryInit ==
    /\ WalInit
    /\ signature_set = NoSignatureSet
    /\ VerifierIdle
    /\ client = NoClient
    /\ PipelineIdle
    /\ StagesIdle
    /\ statistics = NoStatistics
    /\ samples_added = <<>>
    /\ adjuster = NoAdjuster
    /\ fee_history = NoFeeHistory

\* provider.base_fee_history(upto_block, block_count).await
base_fee_history(upto_block, block_count, faulty) ==
    /\ fee_history' =
            [upto_block |-> upto_block, block_count |-> block_count]
                @@ BaseFeeHistory(upto_block, block_count, faulty)
    /\ UNCHANGED <<walVars, batchVars, statistics, samples_added, adjuster,
                   pipelineVars, stageVars>>

FeeHistoryNext ==
    \E upto_block \in UptoBlocks, block_count \in BlockCounts,
       faulty \in 0..(MaxChunks + 1) :
        base_fee_history(upto_block, block_count, faulty)

FeeHistorySpec == FeeHistoryInit /\ [][FeeHistoryNext]_vars

\* The blocks from..upto in ascending order
BlockRange(from, upto) == [i \in 1..(upto + 1 - from) |-> from + i - 1]

\* C26: base_fee_history(upto_block, block_count) returns exactly one value
\* for each block of [upto_block - block_count + 1, upto_block], in ascending
\* block order, none duplicated or omitted, also for ranges longer than one
\* chunk; each fee-history request covers at most 1023 blocks.
C26_OneValuePerBlock ==
    fee_history.result = "Ok" =>
        /\ fee_history.history =
               BlockRange(SaturatingSub(fee_history.upto_block,
                                        fee_history.block_count - 1),
                          fee_history.upto_block)
        /\ \A i \in DOMAIN fee_history.requests :
               fee_history.requests[i].block_count <= 1023

-----------------------------------------------------------------------------
(* Gas adjuster: GasAdjuster::new, keep_updated and run *)

\* The L1 chain has at most MaxL1Blocks blocks
MaxL1Blocks == 4

\* keep_updated fails at most MaxFailures times in a row
MaxFailures == 2

\* The base fees of an L1 block
L1Fees == {[base_fee_per_gas |-> 4, base_fee_per_blob_gas |-> 1],
           [base_fee_per_gas |-> 8, base_fee_per_blob_gas |-> 3]}

\* What the L1 node does with the requests of one keep_updated
Outcomes ==
    {"Ok", "BlockNumberErr", "FeeHistoryErr", "UnexpectedOldestBlock", "ShortResponse"}

\* provider.get_block_number(): the number of the latest of the blocks l1,
\* the first of which is block 0
GetBlockNumber(l1) == Len(l1) - 1

\* The fees of the blocks named by history
FeeData(l1, history) == [i \in DOMAIN history |-> l1[history[i] + 1]]

BaseFeePerGas(fee_data) == [i \in DOMAIN fee_data |-> fee_data[i].base_fee_per_gas]

BaseFeePerBlobGas(fee_data) ==
    [i \in DOMAIN fee_data |-> fee_data[i].base_fee_per_blob_gas]

\* The counter of run after a keep_updated that kept failing
FailedInTotal(attempts_failed_in_a_row, updated) ==
    IF updated = "Err" THEN attempts_failed_in_a_row + 1 ELSE attempts_failed_in_a_row

\* The counter of run after a keep_updated
FailedInARow(attempts_failed_in_a_row, updated) ==
    IF updated = "Err" THEN attempts_failed_in_a_row + 1 ELSE 0

\* The entries base_fee_history collects from the node's answer: the lists
\* zipped, at most chunk_size of them. A node that lacks the data of the
\* newest block answers with shorter lists (the checks of their length are
\* commented out), so the entry of that block is missing.
Received(history, outcome) ==
    IF outcome = "ShortResponse" THEN Take(history, Len(history) - 1) ELSE history

\* GasAdjuster::new(provider, config), when it returns Ok
GasAdjusterNew(l1, max_base_fee_samples, num_samples_for_blob_base_fee_estimate) ==
    LET current_block == SaturatingSub(GetBlockNumber(l1), 1)
        fee_history_ == BaseFeeHistory(current_block, max_base_fee_samples, 0)
        fee_data == FeeData(l1, fee_history_.history)
    IN  [pc |-> "update",
         l1 |-> l1,
         base_fee_statistics |->
             GasStatisticsNew(max_base_fee_samples, current_block,
                              BaseFeePerGas(fee_data)),
         blob_base_fee_statistics |->
             GasStatisticsNew(num_samples_for_blob_base_fee_estimate, current_block,
                              BaseFeePerBlobGas(fee_data)),
         attempts_failed_in_a_row |-> 0,
         last_result |-> "none",
         requested |-> 0,
         returned |-> 0,
         sampled |-> fee_history_.history]

\* keep_updated on the adjuster adj: its result and the statistics after it
KeepUpdatedOn(adj, outcome) ==
    LET failed == [result |-> "Err",
                   base_fee_statistics |-> adj.base_fee_statistics,
                   blob_base_fee_statistics |-> adj.blob_base_fee_statistics,
                   requested |-> 0,
                   history |-> <<>>]
        current_block == SaturatingSub(GetBlockNumber(adj.l1), 1)
        last_processed_block == adj.base_fee_statistics.last_processed_block
        n_blocks == current_block - last_processed_block
        fee_history_ ==
            BaseFeeHistory(current_block, n_blocks,
                           IF outcome = "UnexpectedOldestBlock" THEN 1 ELSE 0)
        history == Received(fee_history_.history, outcome)
        fee_data == FeeData(adj.l1, history)
    IN  IF outcome = "BlockNumberErr" THEN failed
        ELSE IF current_block > last_processed_block
        THEN IF outcome = "FeeHistoryErr" \/ fee_history_.result = "Err"
             THEN failed
             ELSE [result |-> "Ok",
                   base_fee_statistics |->
                       AddSamples(adj.base_fee_statistics, BaseFeePerGas(fee_data)),
                   blob_base_fee_statistics |->
                       AddSamples(adj.blob_base_fee_statistics,
                                  BaseFeePerBlobGas(fee_data)),
                   requested |-> n_blocks,
                   history |-> history]
        ELSE [failed EXCEPT !.result = "Ok"]

AdjusterInit ==
    /\ WalInit
    /\ signature_set = NoSignatureSet
    /\ VerifierIdle
    /\ client = NoClient
    /\ PipelineIdle
    /\ StagesIdle
    /\ statistics = NoStatistics
    /\ samples_added = <<>>
    /\ fee_history = NoFeeHistory
    /\ \E l1 \in SeqsUpTo(L1Fees, 2), max_base_fee_samples \in 1..2,
          num_samples_for_blob_base_fee_estimate \in 1..2 :
        /\ l1 # <<>>
        /\ adjuster = GasAdjusterNew(l1, max_base_fee_samples,
                                     num_samples_for_blob_base_fee_estimate)

\* The L1 chain grows by one block
NewL1Block(fees) ==
    /\ adjuster.pc # "none"
    /\ Len(adjuster.l1) < MaxL1Blocks
    /\ adjuster' = [adjuster EXCEPT !.l1 = Append(@, fees)]
    /\ UNCHANGED <<walVars, batchVars, statistics, samples_added, fee_history,
                   pipelineVars, stageVars>>

\* run: one pass of the loop up to timer.tick().await
KeepUpdated(outcome) ==
    /\ adjuster.pc = "update"
    /\ LET updated == KeepUpdatedOn(adjuster, outcome)
       IN  /\ updated.result = "Err" =>
                  adjuster.attempts_failed_in_a_row < MaxFailures
           /\ adjuster' =
                  [adjuster EXCEPT
                      !.pc = "tick",
                      !.base_fee_statistics = updated.base_fee_statistics,
                      !.blob_base_fee_statistics = updated.blob_base_fee_statistics,
                      !.attempts_failed_in_a_row = FailedInARow(@, updated.result),
                      !.last_result = updated.result,
                      !.requested = updated.requested,
                      !.returned = Len(updated.history),
                      !.sampled = @ \o updated.history]
    /\ UNCHANGED <<walVars, batchVars, statistics, samples_added, fee_history,
                   pipelineVars, stageVars>>

\* run: timer.tick().await completes
TimerTick ==
    /\ adjuster.pc = "tick"
    /\ adjuster' = [adjuster EXCEPT !.pc = "update"]
    /\ UNCHANGED <<walVars, batchVars, statistics, samples_added, fee_history,
                   pipelineVars, stageVars>>

AdjusterNext ==
    \/ \E fees \in L1Fees : NewL1Block(fees)
    \/ \E outcome \in Outcomes : KeepUpdated(outcome)
    \/ TimerTick

AdjusterSpec == AdjusterInit /\ [][AdjusterNext]_vars

\* keep_updated has just returned
Updated == adjuster.pc = "update" /\ adjuster'.pc = "tick"

\* A step of run: a failed keep_updated leaves the statistics alone and
\* counts, a successful one resets the counter, a tick goes on to an update
RunStep ==
    /\ (Updated /\ adjuster'.last_result = "Err") =>
           (/\ adjuster'.base_fee_statistics = adjuster.base_fee_statistics
            /\ adjuster'.blob_base_fee_statistics = adjuster.blob_base_fee_statistics
            /\ adjuster'.attempts_failed_in_a_row =
                   adjuster.attempts_failed_in_a_row + 1)
    /\ (Updated /\ adjuster'.last_result = "Ok") =>
           adjuster'.attempts_failed_in_a_row = 0
    /\ adjuster.pc = "tick" => adjuster'.pc \in {"tick", "update"}

\* C27: the run loop of the gas adjuster never exits: a failed keep_updated
\* leaves both statistics (samples, cached median, last_processed_block) as
\* they were, the loop goes on to wait for the next tick, and the counter of
\* failures in a row is 0 after every successful update.
C27_RunLoopSurvivesFailures ==
    /\ [](adjuster.pc \in {"update", "tick"})
    /\ [][RunStep]_vars

\* Two updates failed in a row while two new L1 blocks wait to be processed
C27_Witness ==
    /\ adjuster.pc = "tick"
    /\ adjuster.last_result = "Err"
    /\ adjuster.attempts_failed_in_a_row = 2
    /\ SaturatingSub(GetBlockNumber(adjuster.l1), 1)
           = adjuster.base_fee_statistics.last_processed_block + 2
    /\ adjuster.base_fee_statistics.samples # <<>>

-----------------------------------------------------------------------------
(* Command source: command_source and MainNodeCommandSource::run *)

\* The records appended to the WAL the command source reads: blocks 1.. of
\* either kind, which differ in their timestamp
CommandRecords ==
    {ReplayRecord(bn, k, 0, FALSE) : bn \in 1..MaxBlock, k \in Kinds}

\* The commands, written with what tells them apart: the block of a Replay,
\* the partial block context (its timestamp) of a Rebuild
ReplayCommand(block_number) ==
    [tag |-> "Replay", block_number |-> block_number, partial_block_context |-> 0]
RebuildCommand(partial_block_context) ==
    [tag |-> "Rebuild", block_number |-> 0,
     partial_block_context |-> partial_block_context]
ProduceCommand ==
    [tag |-> "Produce", block_number |-> 0, partial_block_context |-> 0]

\* map.entry(partial_block_context).or_default().extend(transactions)
Extended(map, partial_block_context, transactions) ==
    [key \in DOMAIN map \cup {partial_block_context} |->
        IF key = partial_block_context
        THEN (IF key \in DOMAIN map THEN map[key] ELSE <<>>) \o transactions
        ELSE map[key]]

\* The loop over block_to_rebuild_from..=last_block_in_wal that fills the map
\* of the rebuild stream; get_replay_record(block).unwrap() panics on a block
\* that has no record
RECURSIVE RebuildMap(_, _, _, _)
RebuildMap(d, block, last_block_in_wal, map) ==
    IF block > last_block_in_wal THEN [panicked |-> FALSE, data |-> map]
    ELSE LET read == GetReplayRecord(d, block)
         IN  IF read.tag # "Some" THEN [panicked |-> TRUE, data |-> map]
             ELSE RebuildMap(d, block + 1, last_block_in_wal,
                             Extended(map, read.record.block_context.timestamp,
                                      read.record.transactions))

\* BTreeMap::first_entry: the entry with the least key
FirstEntry(data) == CHOOSE key \in DOMAIN data : \A other \in DOMAIN data : key <= other

\* The asserts of command_source hold
Asserted(block_to_start, block_to_rebuild_from, last_block_in_wal) ==
    /\ block_to_start >= 1
    /\ \A rebuild_from \in block_to_rebuild_from :
        /\ block_to_start < rebuild_from
        /\ rebuild_from <= last_block_in_wal

\* command_source(block_replay_wal, block_to_start, .., block_to_rebuild_from):
\* the stream it returns, or the panic of one of its asserts and unwraps
CommandSource(block_to_start, block_to_rebuild_from) ==
    /\ handle = "open"
    /\ command_source.pc = "none"
    /\ LET last_block_in_wal == UnwrapOr(LatestRecord(db), 0)
           called == [NoCommandSource EXCEPT
                         !.block_to_start = block_to_start,
                         !.block_to_rebuild_from = block_to_rebuild_from,
                         !.last_block_in_wal = last_block_in_wal]
           map == RebuildMap(db, UnwrapOr(block_to_rebuild_from, 0),
                             last_block_in_wal, <<>>)
       IN  command_source' =
            IF ~Asserted(block_to_start, block_to_rebuild_from, last_block_in_wal)
            THEN [called EXCEPT !.pc = "panicked"]
            ELSE IF block_to_rebuild_from = None
            THEN [called EXCEPT !.pc = "streaming",
                                !.current = block_to_start,
                                !.replay_end = last_block_in_wal]
            ELSE IF map.panicked
            THEN [called EXCEPT !.pc = "panicked"]
            ELSE [called EXCEPT !.pc = "streaming",
                                !.current = block_to_start,
                                !.replay_end = UnwrapOr(block_to_rebuild_from, 0) - 1,
                                !.data = map.data]
    /\ UNCHANGED <<walVars, batchVars, gasVars, sequencer, stageVars>>

\* run: stream.next().await and output.send(command). The chained stream
\* yields the next record of the WAL up to replay_end, then what the rebuild
\* stream yields, then a Produce command. BlockRebuildStream::poll_next loops
\* on the first entry of its map for as long as that entry has no
\* transactions.
NextCommand ==
    /\ command_source.pc = "streaming"
    /\ Len(command_source.emitted) < MaxCommands
    /\ LET block_num == SkipMissing(db, command_source.current,
                                    command_source.replay_end)
           data == command_source.data
       IN  command_source' =
            IF block_num <= command_source.replay_end
            THEN [command_source EXCEPT
                    !.current = block_num + 1,
                    !.emitted = Append(@, ReplayCommand(block_num))]
            ELSE IF DOMAIN data # {}
            THEN IF data[FirstEntry(data)] = <<>>
                 THEN [command_source EXCEPT !.current = block_num,
                                             !.pc = "looping"]
                 ELSE [command_source EXCEPT
                         !.current = block_num,
                         !.emitted = Append(@, RebuildCommand(FirstEntry(data)))]
            ELSE [command_source EXCEPT
                    !.current = block_num,
                    !.emitted = Append(@, ProduceCommand)]
    /\ UNCHANGED <<walVars, batchVars, gasVars, sequencer, stageVars>>

\* TxRebuildStream::poll_next on the transactions of a Rebuild command that
\* was emitted: they are the queue of the map entry, shared with the stream
PollTxRebuildStream(partial_block_context) ==
    /\ command_source.pc = "streaming"
    /\ \E i \in DOMAIN command_source.emitted :
        command_source.emitted[i] = RebuildCommand(partial_block_context)
    /\ command_source.data[partial_block_context] # <<>>
    /\ command_source' =
        [command_source EXCEPT !.data[partial_block_context] = Tail(@)]
    /\ UNCHANGED <<walVars, batchVars, gasVars, sequencer, stageVars>>

\* run: output.send fails because the receiver is gone; the source stops
OutputClosed ==
    /\ command_source.pc = "streaming"
    /\ command_source' = [command_source EXCEPT !.pc = "stopped"]
    /\ UNCHANGED <<walVars, batchVars, gasVars, sequencer, stageVars>>

CommandSourceNext ==
    \/ \E node_version \in Versions : New(node_version)
    \/ \E record \in CommandRecords : append(record)
    \/ \E block_to_start \in 0..(MaxBlock + 1),
          block_to_rebuild_from \in {None} \cup {Some(b) : b \in 1..(MaxBlock + 1)} :
        CommandSource(block_to_start, block_to_rebuild_from)
    \/ NextCommand
    \/ \E partial_block_context \in {KindTimestamp(k) : k \in Kinds} :
        PollTxRebuildStream(partial_block_context)
    \/ OutputClosed

CommandSourceSpec == Init /\ [][CommandSourceNext]_vars

\* The command source was called and did not panic
Streams == command_source.pc \in {"streaming", "looping", "stopped"}

\* The first replays commands emitted are Replay for from, from + 1, .. and
\* those after them are of one of the tags
ReplaysThen(from, replays, tags) ==
    \A i \in DOMAIN command_source.emitted :
        IF i <= replays
        THEN command_source.emitted[i] = ReplayCommand(from + i - 1)
        ELSE command_source.emitted[i].tag \in tags

\* C28: without a rebuild range the command source emits Replay for the
\* blocks block_to_start, block_to_start + 1, .., latest_record (as read at
\* the start), each once and in ascending order, and Produce commands only
\* after all of them; no Replay follows a Produce.
C28_ReplayThenProduce ==
    (Streams /\ command_source.block_to_rebuild_from = None) =>
        ReplaysThen(command_source.block_to_start,
                    SaturatingSub(command_source.last_block_in_wal + 1,
                                  command_source.block_to_start),
                    {"Produce"})

\* C29: a rebuild from rebuild_from is accepted whenever
\* block_to_start <= rebuild_from <= latest_record, rebuild_from =
\* block_to_start included: the command source does not panic and emits
\* Replay exactly for block_to_start .. rebuild_from - 1 and the Rebuild
\* commands after them.
C29_RebuildAccepted ==
    \A rebuild_from \in command_source.block_to_rebuild_from :
        (/\ command_source.pc # "none"
         /\ 1 <= command_source.block_to_start
         /\ command_source.block_to_start <= rebuild_from
         /\ rebuild_from <= command_source.last_block_in_wal) =>
            /\ command_source.pc # "panicked"
            /\ ReplaysThen(command_source.block_to_start,
                           rebuild_from - command_source.block_to_start,
                           {"Rebuild", "Produce"})

-----------------------------------------------------------------------------
(* Sequencer: Sequencer::run *)

\* The records of the commands the sequencer receives: those of the WAL and
\* one without transactions
SequencerRecords ==
    CommandRecords \cup {ReplayRecord(bn, 1, 0, TRUE) : bn \in 1..MaxBlock}

\* The limits on the blocks to produce
BlockLimits == {None, Some(1)}

\* What the components called by run have done, in the order of their calls
Logged(log, step, block_number) ==
    Append(log, [step |-> step, block_number |-> block_number])

\* The sequencer task starts: the command source will send the commands of
\* the blocks from starting_block on
StartSequencer(starting_block, max_blocks_to_produce) ==
    /\ handle = "open"
    /\ sequencer.pc = "none"
    /\ sequencer' = [NoSequencer EXCEPT
                        !.pc = "recv",
                        !.next_block = starting_block,
                        !.max_blocks_to_produce = max_blocks_to_produce]
    /\ UNCHANGED <<walVars, batchVars, gasVars, command_source, stageVars>>

\* The replay record execute_block returns: that of a Replay command, and for
\* a Produce command a record of the next block with transactions
Executed(record, next_block, kind) ==
    IF record = <<>> THEN ReplayRecord(next_block, kind, 0, FALSE) ELSE record

\* check_block_production_limit with a limit the count has passed
LimitExceeded(already_produced_blocks_count, max_blocks_to_produce) ==
    \E limit \in max_blocks_to_produce : already_produced_blocks_count > limit

\* run and check_block_production_limit: there is a limit and
\* already_produced_blocks_count >= limit
LimitReached(already_produced_blocks_count, max_blocks_to_produce) ==
    \E limit \in max_blocks_to_produce : already_produced_blocks_count >= limit

\* run returns the error err
Bailed(seq, err) ==
    [seq EXCEPT !.pc = "exited", !.exit = err, !.returned = "Err"]

\* prepare_command and execute_block that write the block before they fail
PreparedStored(seq, replay_record, tag, outcome) ==
    [seq EXCEPT
        !.pc = IF outcome = "ok" THEN "add_to_state" ELSE "exited",
        !.exit = IF outcome = "ok" THEN @ ELSE outcome,
        !.returned = IF outcome = "ok" THEN @ ELSE "Err",
        !.log = Logged(@, "add_block_result", replay_record.block_context.block_number)]

\* run: prepare_command(cmd).await? and execute_block(..).await..?; outcome
\* is "ok" or the call that failed
Prepared(seq, replay_record, tag, outcome) ==
    IF outcome = "ok"
    THEN [seq EXCEPT
            !.pc = "add_to_state",
            !.replay_record = replay_record,
            !.next_block = replay_record.block_context.block_number + 1,
            !.executed = Append(@, tag)]
    ELSE Bailed(seq, outcome)

\* run: input.recv(), the block production limit, prepare_command and
\* execute_block. record is that of a Replay command, <<>> for Produce;
\* outcome is "closed" for a closed input, else that of the calls that can
\* fail.
Recv(record, kind, outcome) ==
    /\ sequencer.pc = "recv"
    /\ LET replay_record == Executed(record, sequencer.next_block, kind)
           block_number == replay_record.block_context.block_number
           tag == IF record = <<>> THEN "Produce" ELSE "Replay"
           limit_set == tag = "Produce" /\ sequencer.max_blocks_to_produce # None
           counted == [sequencer EXCEPT
                         !.produced_blocks_count = IF limit_set THEN @ + 1 ELSE @]
       IN  /\ block_number >= sequencer.next_block
           /\ block_number <= MaxBlock
           /\ sequencer' =
                IF outcome = "closed"
                THEN Bailed(sequencer, "inbound channel closed")
                ELSE IF /\ tag = "Produce"
                        /\ LimitReached(sequencer.produced_blocks_count,
                                        sequencer.max_blocks_to_produce)
                THEN [sequencer EXCEPT !.pc = "limit_reached",
                                       !.tx_acceptance_state = "NotAccepting"]
                ELSE Prepared(counted, replay_record, tag, outcome)
    /\ UNCHANGED <<walVars, batchVars, gasVars, command_source, stageVars>>

\* run: self.state.add_block_result(block_number, ..)?
AddBlockResult(ok) ==
    /\ sequencer.pc = "add_to_state"
    /\ sequencer' =
        IF ok
        THEN [sequencer EXCEPT
                !.pc = "add_to_repos",
                !.log = Logged(@, "add_block_result",
                               sequencer.replay_record.block_context.block_number)]
        ELSE Bailed(sequencer, "add_block_result")
    /\ UNCHANGED <<walVars, batchVars, gasVars, command_source, stageVars>>

\* run: self.repositories.populate(..).await
Populate ==
    /\ sequencer.pc = "add_to_repos"
    /\ sequencer' =
        [sequencer EXCEPT
            !.pc = "update_mempool",
            !.log = Logged(@, "populate",
                           sequencer.replay_record.block_context.block_number)]
    /\ UNCHANGED <<walVars, batchVars, gasVars, command_source, stageVars>>

\* run: on_canonical_state_change and remove_txs of the purged transactions
UpdateMempool ==
    /\ sequencer.pc = "update_mempool"
    /\ LET block_number == sequencer.replay_record.block_context.block_number
       IN  sequencer' =
            [sequencer EXCEPT
                !.pc = "add_to_wal",
                !.log = Logged(Logged(@, "on_canonical_state_change", block_number),
                               "remove_txs", block_number)]
    /\ UNCHANGED <<walVars, batchVars, gasVars, command_source, stageVars>>

\* run: self.wal.append(replay_record.clone())
WalAppend ==
    /\ sequencer.pc = "add_to_wal"
    /\ LET appended == AppendOutcome(db, sequencer.replay_record)
       IN  /\ result' = appended
           /\ db' = AppendStorage(db, sequencer.replay_record)
           /\ sequencer' =
                IF appended = "panic"
                THEN [sequencer EXCEPT !.pc = "panicked"]
                ELSE [sequencer EXCEPT
                        !.pc = "send",
                        !.log = Logged(@, "append",
                                       sequencer.replay_record.block_context.block_number)]
    /\ UNCHANGED <<handle, stream, batchVars, gasVars, command_source, stageVars>>

\* run: output.send((block_output, replay_record)).await
Send(closed) ==
    /\ sequencer.pc = "send"
    /\ sequencer' =
        IF closed
        THEN Bailed(sequencer, "Outbound channel closed")
        ELSE [sequencer EXCEPT
                !.pc = "recv",
                !.log = Logged(@, "send",
                               sequencer.replay_record.block_context.block_number),
                !.output = Append(@, sequencer.replay_record)]
    /\ UNCHANGED <<walVars, batchVars, gasVars, command_source, stageVars>>

\* The node stops after the sequencer task ended; the storage is closed
SequencerStopped ==
    /\ handle = "open"
    /\ sequencer.pc \in {"exited", "panicked", "limit_reached"}
    /\ handle' = "closed"
    /\ result' = "none"
    /\ sequencer' = NoSequencer
    /\ UNCHANGED <<db, stream, batchVars, gasVars, command_source, stageVars>>

SequencerNext ==
    \/ New(<<0, 1, 0>>)
    \/ \E starting_block \in 1..MaxBlock, max_blocks_to_produce \in BlockLimits :
        StartSequencer(starting_block, max_blocks_to_produce)
    \/ \E record \in SequencerRecords \cup {<<>>}, kind \in Kinds,
          outcome \in {"ok", "closed", "prepare_command", "execute_block"} :
        Recv(record, kind, outcome)
    \/ \E ok \in BOOLEAN : AddBlockResult(ok)
    \/ Populate
    \/ UpdateMempool
    \/ WalAppend
    \/ \E closed \in BOOLEAN : Send(closed)
    \/ SequencerStopped

SequencerSpec == Init /\ [][SequencerNext]_vars

\* The calls of run for one command, in the order of the claim
StepOrder ==
    <<"add_block_result", "populate", "on_canonical_state_change", "remove_txs",
      "append", "send">>

\* The place of a step in StepOrder
StepNumber(step) == CHOOSE n \in DOMAIN StepOrder : StepOrder[n] = step

\* Each call logged is the one after the call before it, for the same
\* block, or the first call for a new command after the last one for the
\* command before it
LoggedInOrder(log) ==
    \A i \in DOMAIN log :
        IF StepNumber(log[i].step) = 1
        THEN i = 1 \/ log[i - 1].step = "send"
        ELSE /\ i > 1
             /\ StepNumber(log[i - 1].step) = StepNumber(log[i].step) - 1
             /\ log[i - 1].block_number = log[i].block_number

\* C30: for every command the sequencer processes, the state write, the
\* repository populate, the mempool update (on_canonical_state_change, then
\* the removal of the purged transactions) and the WAL append happen in
\* this order and before the block is sent downstream; a block observed
\* downstream has its replay record readable from the WAL.
C30_PersistedBeforeEmitted ==
    /\ LoggedInOrder(sequencer.log)
    /\ \A i \in DOMAIN sequencer.output :
        GetReplayRecord(db, sequencer.output[i].block_context.block_number).tag
            = "Some"

\* The number of Produce commands among those executed
ProduceExecuted ==
    Cardinality({i \in DOMAIN sequencer.executed : sequencer.executed[i] = "Produce"})

\* The sequencer waits in check_block_production_limit
Suspended == sequencer.pc = "limit_reached"

\* A suspended sequencer does nothing more: it stays as it is until the
\* node stops
StaysSuspended ==
    Suspended =>
        \/ sequencer' = sequencer /\ db' = db
        \/ sequencer' = NoSequencer /\ db' = db

\* C31: with max_blocks_to_produce = L the sequencer executes at most L
\* Produce commands; on a Produce command received after L were processed
\* it signals NotAccepting and executes, persists and emits nothing more;
\* Replay commands do not count.
C31_ProductionLimit ==
    /\ [](\A limit \in sequencer.max_blocks_to_produce :
            /\ ProduceExecuted <= limit
            /\ sequencer.pc # "exited" =>
                   sequencer.produced_blocks_count = ProduceExecuted
            /\ Suspended =>
                   /\ ProduceExecuted = limit
                   /\ sequencer.tx_acceptance_state = "NotAccepting")
    /\ [](sequencer.tx_acceptance_state = "NotAccepting" => Suspended)
    /\ [][StaysSuspended]_vars

\* With the limit 1, a Replay and a Produce command were executed and sent
\* downstream before the next Produce command suspended the sequencer
C31_Witness ==
    /\ Suspended
    /\ sequencer.max_blocks_to_produce = Some(1)
    /\ sequencer.executed = <<"Replay", "Produce">>
    /\ Len(sequencer.output) = 2

\* execute_block has just failed
ExecutionFailed == sequencer.exit = "none" /\ sequencer'.exit = "execute_block"

\* The failed command left the WAL, the calls logged and the output alone
NothingPersisted ==
    ExecutionFailed =>
        /\ db' = db
        /\ sequencer'.log = sequencer.log
        /\ sequencer'.output = sequencer.output
        /\ sequencer'.pc = "exited"
        /\ sequencer'.returned = "Err"

\* C32: when the execution of a block fails the sequencer task exits with
\* an error and nothing of the command is persisted or sent: state,
\* repository, mempool and WAL are as before and there is no output for it.
C32_FailedExecutionPersistsNothing ==
    /\ [](sequencer.exit # "none" => sequencer.pc = "exited")
    /\ [][NothingPersisted]_vars

\* The execution of the second command failed after the first was processed
C32_Witness ==
    /\ sequencer.exit = "execute_block"
    /\ Len(sequencer.log) = 6
    /\ Len(sequencer.output) = 1

\* C33: a stage whose inbound channel is closed and drained terminates
\* cleanly: its run returns Ok, not an error. Stated for the sequencer.
C33_ClosedInputEndsCleanly ==
    sequencer.exit = "inbound channel closed" => sequencer.returned = "Ok"

-----------------------------------------------------------------------------
(* A pipeline of stage tasks: Pipeline::pipe and spawn, the command source,
   the sequencer and a later stage (the batch verifier) *)

\* mpsc::channel(C::OUTPUT_BUFFER_SIZE): the commands a channel holds at most
ChannelCapacity == 2

\* The command source has at most MaxReplays blocks to replay
MaxReplays == 2

\* A task that returned has dropped its receiver and its sender
Terminated(task) == task \in {"Ok", "Err"}

\* Sender::send on a channel that never tells a waiting sender that the
\* receiver is gone
SendWaits(queue, receiver) ==
    IF Len(queue) < ChannelCapacity
    THEN IF Terminated(receiver) THEN "Err" ELSE "Ok"
    ELSE "Pending"

\* Sender::send(..).await on the channel pipe made: an error once the
\* receiver is dropped, else the value is queued when there is room, else the
\* sender waits
SendOutcome(queue, receiver) ==
    IF Terminated(receiver) THEN "Err"
    ELSE IF Len(queue) < ChannelCapacity THEN "Ok"
    ELSE "Pending"

\* PeekableReceiver::recv().await: the next value, None once the channel is
\* empty and its sender dropped, else the receiver waits
RecvOutcome(queue, sender) ==
    IF queue # <<>> THEN "Some"
    ELSE IF Terminated(sender) THEN "None"
    ELSE "Pending"

\* The first task that ended
FirstEnded(pipe, task) == IF pipe.first = "none" THEN task ELSE pipe.first

PipelineInit ==
    /\ WalInit
    /\ signature_set = NoSignatureSet
    /\ VerifierIdle
    /\ client = NoClient
    /\ GasIdle
    /\ PipelineIdle
    /\ StagesIdle

\* Pipeline::pipe for each component and spawn: the tasks run, linked by
\* empty channels
Spawn(replays, max_blocks_to_produce) ==
    /\ pipeline.pc = "none"
    /\ pipeline' = [NoPipeline EXCEPT
                        !.pc = "spawned",
                        !.replays = replays,
                        !.max_blocks_to_produce = max_blocks_to_produce,
                        !.source = "running",
                        !.sequencer = "recv",
                        !.stage = "recv",
                        !.consumer = "running"]
    /\ UNCHANGED <<walVars, batchVars, gasVars, pipelineVars, l1_sender,
                   block_cache, routing>>

\* MainNodeCommandSource::run: the next command of the stream (Replay for
\* the blocks of the WAL, then Produce without end) is sent; a send error
\* ends the loop and run returns Ok
SourceSend ==
    /\ pipeline.source = "running"
    /\ LET command == IF pipeline.replays > 0 THEN "Replay" ELSE "Produce"
           sent == SendOutcome(pipeline.input, pipeline.sequencer)
       IN  /\ sent # "Pending"
           /\ pipeline' =
                IF sent = "Err"
                THEN [pipeline EXCEPT !.source = "Ok",
                                      !.first = FirstEnded(pipeline, "source")]
                ELSE [pipeline EXCEPT
                        !.input = Append(@, command),
                        !.replays = IF @ > 0 THEN @ - 1 ELSE @]
    /\ UNCHANGED <<walVars, batchVars, gasVars, pipelineVars, l1_sender,
                   block_cache, routing>>

\* Sequencer::run: input.recv() and the block production limit
SequencerRecv ==
    /\ pipeline.sequencer = "recv"
    /\ LET received == RecvOutcome(pipeline.input, pipeline.source)
           command == Head(pipeline.input)
           limit_set == pipeline.max_blocks_to_produce # None
       IN  /\ received # "Pending"
           /\ pipeline' =
                IF received = "None"
                THEN [pipeline EXCEPT !.sequencer = "Err",
                                      !.first = FirstEnded(pipeline, "sequencer")]
                ELSE IF /\ command = "Produce"
                        /\ LimitReached(pipeline.produced_blocks_count,
                                        pipeline.max_blocks_to_produce)
                THEN [pipeline EXCEPT !.input = Tail(@),
                                      !.sequencer = "suspended"]
                ELSE [pipeline EXCEPT
                        !.input = Tail(@),
                        !.sequencer = "send",
                        !.command = command,
                        !.produced_blocks_count =
                            IF command = "Produce" /\ limit_set THEN @ + 1 ELSE @]
    /\ UNCHANGED <<walVars, batchVars, gasVars, pipelineVars, l1_sender,
                   block_cache, routing>>

\* Sequencer::run: output.send of the executed block; a send error is
\* returned
SequencerSend ==
    /\ pipeline.sequencer = "send"
    /\ LET sent == SendOutcome(pipeline.output, pipeline.stage)
       IN  /\ sent # "Pending"
           /\ pipeline' =
                IF sent = "Err"
                THEN [pipeline EXCEPT !.sequencer = "Err",
                                      !.command = "none",
                                      !.first = FirstEnded(pipeline, "sequencer")]
                ELSE [pipeline EXCEPT
                        !.output = Append(@, pipeline.command),
                        !.command = "none",
                        !.sequencer = "recv"]
    /\ UNCHANGED <<walVars, batchVars, gasVars, pipelineVars, l1_sender,
                   block_cache, routing>>

\* Sequencer::run: prepare_command, execute_block or add_block_result fails
\* and the error is returned
SequencerFails ==
    /\ pipeline.sequencer = "send"
    /\ pipeline' = [pipeline EXCEPT !.sequencer = "Err",
                                    !.command = "none",
                                    !.first = FirstEnded(pipeline, "sequencer")]
    /\ UNCHANGED <<walVars, batchVars, gasVars, pipelineVars, l1_sender,
                   block_cache, routing>>

\* BatchVerifier::run: recv on the input; a closed input ends the loop with Ok
StageRecv ==
    /\ pipeline.stage = "recv"
    /\ LET received == RecvOutcome(pipeline.output, pipeline.sequencer)
       IN  /\ received # "Pending"
           /\ pipeline' =
                IF received = "None"
                THEN [pipeline EXCEPT !.stage = "Ok",
                                      !.first = FirstEnded(pipeline, "stage")]
                ELSE [pipeline EXCEPT !.output = Tail(@), !.stage = "send"]
    /\ UNCHANGED <<walVars, batchVars, gasVars, pipelineVars, l1_sender,
                   block_cache, routing>>

\* BatchVerifier::run: the send to the rest of the pipeline, whose receiver
\* takes every value while it runs; a send error is returned
StageSend ==
    /\ pipeline.stage = "send"
    /\ pipeline' =
        IF pipeline.consumer = "gone"
        THEN [pipeline EXCEPT !.stage = "Err",
                              !.first = FirstEnded(pipeline, "stage")]
        ELSE [pipeline EXCEPT !.stage = "recv"]
    /\ UNCHANGED <<walVars, batchVars, gasVars, pipelineVars, l1_sender,
                   block_cache, routing>>

\* BatchVerifier::run: the collection of signatures fails and the error is
\* returned
StageFails ==
    /\ pipeline.stage = "send"
    /\ pipeline' = [pipeline EXCEPT !.stage = "Err",
                                    !.first = FirstEnded(pipeline, "stage")]
    /\ UNCHANGED <<walVars, batchVars, gasVars, pipelineVars, l1_sender,
                   block_cache, routing>>

\* The task after the stage ends and drops its receiver
ConsumerEnds ==
    /\ pipeline.consumer = "running"
    /\ pipeline' = [pipeline EXCEPT !.consumer = "gone",
                                    !.first = FirstEnded(pipeline, "consumer")]
    /\ UNCHANGED <<walVars, batchVars, gasVars, pipelineVars, l1_sender,
                   block_cache, routing>>

PipelineNext ==
    \/ \E replays \in 0..MaxReplays, max_blocks_to_produce \in BlockLimits :
        Spawn(replays, max_blocks_to_produce)
    \/ SourceSend
    \/ SequencerRecv
    \/ SequencerSend
    \/ SequencerFails
    \/ StageRecv
    \/ StageSend
    \/ StageFails
    \/ ConsumerEnds

PipelineSpec == PipelineInit /\ [][PipelineNext]_vars

\* The runtime polls every task that can take a step; that a task fails is
\* not required to happen
FairPipelineSpec ==
    /\ PipelineSpec
    /\ WF_vars(SourceSend)
    /\ WF_vars(SequencerRecv)
    /\ WF_vars(SequencerSend)
    /\ WF_vars(StageRecv)
    /\ WF_vars(StageSend)

\* A task of the pipeline has ended
SomeEnded == pipeline.first # "none"

\* Every stage task has ended
AllEnded ==
    /\ Terminated(pipeline.source)
    /\ Terminated(pipeline.sequencer)
    /\ Terminated(pipeline.stage)

\* The sequencer waits in check_block_production_limit, holding both its
\* channels
SequencerSuspended == pipeline.sequencer = "suspended"

-----------------------------------------------------------------------------
(* The dry-run L1 sender: run_l1_sender_dry_run *)

\* At most MaxL1Commands commands reach the sender, of at most MaxEnvelopes
\* batch envelopes each
MaxL1Commands == 2
MaxEnvelopes == 2

\* A batch envelope: its batch number and the stages set on it
Envelope(batch_number) == [batch_number |-> batch_number, stages |-> <<>>]

\* The commands over the batches from first on: a commit or prove command
\* has one envelope, an execute command may have several
RECURSIVE L1Commands(_, _)
L1Commands(first, count) ==
    IF count = 0 THEN {<<>>}
    ELSE {<<>>} \cup
         UNION {{<<[i \in 1..size |-> Envelope(first + i - 1)]>> \o rest :
                    rest \in L1Commands(first + size, count - 1)} :
                size \in 1..MaxEnvelopes}

\* envelope.set_stage(stage)
SetStage(envelope, stage) == [envelope EXCEPT !.stages = Append(@, stage)]

\* cmd.as_mut().iter_mut().for_each: SENT_STAGE then MINED_STAGE on every
\* envelope of the command
MarkedSentAndMined(cmd) ==
    [i \in DOMAIN cmd |-> SetStage(SetStage(cmd[i], "Sent"), "Mined")]

\* The envelopes of a sequence of commands, in order
RECURSIVE Envelopes(_)
Envelopes(commands) ==
    IF commands = <<>> THEN <<>>
    ELSE Head(commands) \o Envelopes(Tail(commands))

\* The simulation when a failure of the fee estimate is logged like that of
\* eth_call
SimulatedRegardless(sender, outcome) ==
    [sender EXCEPT
        !.pc = "send",
        !.cmd = MarkedSentAndMined(@),
        !.simulated = Append(@, outcome)]

\* tx_request_with_gas_fields(..).await? and provider.call(tx_request):
\* the error of the fee estimate is returned, the result of eth_call is
\* logged and the envelopes are marked
Simulated(sender, outcome) ==
    IF outcome = "estimate_eip1559_fees"
    THEN Bailed(sender, outcome)
    ELSE SimulatedRegardless(sender, outcome)

DryRunInit ==
    /\ WalInit
    /\ signature_set = NoSignatureSet
    /\ VerifierIdle
    /\ client = NoClient
    /\ GasIdle
    /\ PipelineIdle
    /\ StagesIdle

\* run_l1_sender_dry_run is called: the operator address is configured or
\* derived from the private key; inbound holds the commands the sender will
\* be given before the channel closes
DryRunStart(inbound, key_parsed) ==
    /\ l1_sender.pc = "none"
    /\ l1_sender' =
        IF key_parsed
        THEN [NoL1Sender EXCEPT !.pc = "recv", !.inbound = inbound]
        ELSE Bailed([NoL1Sender EXCEPT !.inbound = inbound],
                    "failed to parse operator private key")
    /\ UNCHANGED <<walVars, batchVars, gasVars, pipelineVars, pipeline,
                   block_cache, routing>>

\* The task before the sender ends: the inbound channel is closed
InboundCloses ==
    /\ l1_sender.pc \notin {"none", "exited"}
    /\ ~l1_sender.closed
    /\ l1_sender' = [l1_sender EXCEPT !.closed = TRUE]
    /\ UNCHANGED <<walVars, batchVars, gasVars, pipelineVars, pipeline,
                   block_cache, routing>>

\* inbound.recv().await: the next command, or the closed channel
DryRunRecv ==
    /\ l1_sender.pc = "recv"
    /\ l1_sender.inbound # <<>> \/ l1_sender.closed
    /\ l1_sender' =
        IF l1_sender.inbound = <<>>
        THEN Bailed(l1_sender, "inbound channel closed")
        ELSE [l1_sender EXCEPT
                !.pc = "simulate",
                !.cmd = Head(l1_sender.inbound),
                !.received = Append(@, Head(l1_sender.inbound)),
                !.inbound = Tail(@)]
    /\ UNCHANGED <<walVars, batchVars, gasVars, pipelineVars, pipeline,
                   block_cache, routing>>

\* The fee fields, eth_call and the stages of the envelopes; outcome is
\* "ok" or the call that failed
DryRunSimulate(outcome) ==
    /\ l1_sender.pc = "simulate"
    /\ l1_sender' = Simulated(l1_sender, outcome)
    /\ UNCHANGED <<walVars, batchVars, gasVars, pipelineVars, pipeline,
                   block_cache, routing>>

\* for output_envelope in cmd.into(): outbound.send(output_envelope).await?
DryRunSend(receiver_dropped) ==
    /\ l1_sender.pc = "send"
    /\ l1_sender' =
        IF receiver_dropped
        THEN Bailed(l1_sender, "outbound channel closed")
        ELSE [l1_sender EXCEPT
                !.outbound = Append(@, Head(l1_sender.cmd)),
                !.cmd = Tail(@),
                !.pc = IF Len(l1_sender.cmd) = 1 THEN "recv" ELSE "send"]
    /\ UNCHANGED <<walVars, batchVars, gasVars, pipelineVars, pipeline,
                   block_cache, routing>>

DryRunNext ==
    \/ \E inbound \in L1Commands(1, MaxL1Commands), key_parsed \in BOOLEAN :
        DryRunStart(inbound, key_parsed)
    \/ InboundCloses
    \/ DryRunRecv
    \/ \E outcome \in {"ok", "estimate_eip1559_fees", "call"} :
        DryRunSimulate(outcome)
    \/ \E receiver_dropped \in BOOLEAN : DryRunSend(receiver_dropped)

DryRunSpec == DryRunInit /\ [][DryRunNext]_vars

\* The envelopes sent downstream are the first of those received, in input
\* order, each once and marked Sent then Mined
ForwardedInOrder ==
    /\ Len(l1_sender.outbound) <= Len(Envelopes(l1_sender.received))
    /\ \A i \in DOMAIN l1_sender.outbound :
        l1_sender.outbound[i] =
            [Envelopes(l1_sender.received)[i] EXCEPT !.stages = <<"Sent", "Mined">>]

\* Every envelope received has been sent downstream
AllForwarded == Len(l1_sender.outbound) = Len(Envelopes(l1_sender.received))

\* The sender ended though its channels are open
EndedBySimulation ==
    /\ l1_sender.pc = "exited"
    /\ l1_sender.exit \notin {"inbound channel closed", "outbound channel closed",
                              "failed to parse operator private key"}

\* C35: in dry-run mode every envelope of every command received is sent
\* downstream exactly once, in input order, marked SENT then MINED, whether
\* the simulation, its fee preparation included, succeeds or fails, and no
\* transaction is sent to L1.
C35_ForwardedWhateverTheSimulation ==
    /\ ForwardedInOrder
    /\ l1_sender.l1_transactions = 0
    /\ l1_sender.pc = "recv" => AllForwarded
    /\ ~EndedBySimulation

-----------------------------------------------------------------------------
(* The request_id map between the verifier's attempts and the response
   processor *)

\* C37: whenever no attempt is in progress the request_id map is empty:
\* every attempt removes its entry when it ends, whether it succeeds, times
\* out, fails with NotEnoughSigners or fails internally.
C37_MapEmptyBetweenAttempts ==
    verifier.pc # "collecting" => DOMAIN response_channels = {}

\* The signers answer a batch with at most MaxResponses responses
MaxResponses == 4

\* A batch is tried at most MaxAttempts times
MaxAttempts == 2

\* DashMap::remove and DashMap::insert take the write lock of the key's
\* shard: they wait while a Ref of get is held on it. The keys of the model
\* share a shard.
WriteLocked(held) == held # {}

\* Sender::send(..).await can complete: the channel has room or its
\* receiver is dropped
CanSend(route) == route.queue < route.threshold \/ route.receiver = "dropped"

\* The channel after a completed send: the response is queued unless the
\* receiver is dropped
Sent(route) ==
    [route EXCEPT
        !.queue = IF route.receiver = "dropped" \/ route.response # route.request_id
                  THEN @ ELSE @ + 1,
        !.processor = "recv",
        !.held = {}]

RoutingInit ==
    /\ WalInit
    /\ signature_set = NoSignatureSet
    /\ VerifierIdle
    /\ client = NoClient
    /\ GasIdle
    /\ PipelineIdle
    /\ StagesIdle

\* select_all of the response processor and the verifier in one task; the
\* verifier has received a batch
RoutingStart(threshold, incoming) ==
    /\ routing.pc = "none"
    /\ routing' = [NoRouting EXCEPT
                        !.pc = "running",
                        !.threshold = threshold,
                        !.incoming = incoming,
                        !.verifier = "attempt",
                        !.processor = "recv"]
    /\ UNCHANGED <<walVars, batchVars, gasVars, pipelineVars, pipeline,
                   l1_sender, block_cache>>

\* collect_batch_verification_signatures: fetch_add, the channel of capacity
\* threshold, response_channels.insert and the broadcast, which fails when
\* too few signers are connected
AttemptStart(enough_signers) ==
    /\ routing.verifier = "attempt"
    /\ ~WriteLocked(routing.held)
    /\ LET fetched == FetchAdd(routing.request_id_counter)
       IN  routing' = [routing EXCEPT
                !.request_id_counter = fetched.counter,
                !.request_id = fetched.previous,
                !.entries = @ \cup {fetched.previous},
                !.queue = 0,
                !.responses = 0,
                !.receiver = IF enough_signers THEN "open" ELSE "dropped",
                !.verifier = IF ~enough_signers THEN
                                IF fetched.counter < MaxAttempts
                                THEN "sleeping" ELSE "failed"
                             ELSE "collecting"]
    /\ UNCHANGED <<walVars, batchVars, gasVars, pipelineVars, pipeline,
                   l1_sender, block_cache>>

\* run_batch_response_processor: response_receiver.recv(), then
\* response_channels.get(&request_id) and sender.send(response).await, which
\* keeps the Ref while it waits for room. The response is one for the
\* request_id given.
ProcessorRoutes(request_id) ==
    /\ routing.processor = "recv"
    /\ routing.verifier \notin {"none", "remove"}
    /\ routing.incoming > 0
    /\ LET received == [routing EXCEPT !.incoming = @ - 1,
                                       !.response = request_id]
           found == [received EXCEPT !.held = {request_id}]
       IN  routing' =
            IF request_id \notin routing.entries
            THEN received
            ELSE IF request_id # routing.request_id
            THEN Sent([found EXCEPT !.receiver = "dropped"])
            ELSE IF CanSend(found)
            THEN Sent(found)
            ELSE [found EXCEPT !.processor = "send"]
    /\ UNCHANGED <<walVars, batchVars, gasVars, pipelineVars, pipeline,
                   l1_sender, block_cache>>

\* The processor is polled again and its send completes. While the verifier
\* waits for the write lock inside its poll the task polls nothing else.
ProcessorResumes ==
    /\ routing.processor = "send"
    /\ routing.verifier # "remove"
    /\ CanSend(routing)
    /\ routing' = Sent(routing)
    /\ UNCHANGED <<walVars, batchVars, gasVars, pipelineVars, pipeline,
                   l1_sender, block_cache>>

\* One turn of the collection loop: response_receiver.recv() yields a
\* response, process_response and push accept it or not, and at the
\* threshold the loop breaks and the verifier goes on to
\* response_channels.remove within the same poll
VerifierReceives(accepted) ==
    /\ routing.verifier = "collecting"
    /\ routing.queue > 0
    /\ LET responses == IF accepted THEN routing.responses + 1
                        ELSE routing.responses
       IN  routing' = [routing EXCEPT
                !.queue = @ - 1,
                !.responses = responses,
                !.verifier = IF responses >= routing.threshold
                             THEN "remove" ELSE "collecting"]
    /\ UNCHANGED <<walVars, batchVars, gasVars, pipelineVars, pipeline,
                   l1_sender, block_cache>>

\* response_channels.remove(&request_id) gets the write lock; the attempt
\* returns Ok and drops its receiver
VerifierRemoves ==
    /\ routing.verifier = "remove"
    /\ ~WriteLocked(routing.held)
    /\ routing' = [routing EXCEPT
            !.entries = @ \ {routing.request_id},
            !.receiver = "dropped",
            !.queue = 0,
            !.verifier = "returned"]
    /\ UNCHANGED <<walVars, batchVars, gasVars, pipelineVars, pipeline,
                   l1_sender, block_cache>>

\* tokio::time::timeout fires: the attempt returns Err(Timeout) and drops
\* its receiver; run sleeps before the next attempt or gives up
VerifierTimesOut ==
    /\ routing.verifier = "collecting"
    /\ routing' = [routing EXCEPT
            !.receiver = "dropped",
            !.queue = 0,
            !.verifier = IF routing.request_id_counter < MaxAttempts
                         THEN "sleeping" ELSE "failed"]
    /\ UNCHANGED <<walVars, batchVars, gasVars, pipelineVars, pipeline,
                   l1_sender, block_cache>>

\* tokio::time::sleep(retry_delay) is over. The processor, woken when the
\* receiver was dropped, has been polled since.
VerifierWakes ==
    /\ routing.verifier = "sleeping"
    /\ routing.processor = "recv"
    /\ routing' = [routing EXCEPT !.verifier = "attempt"]
    /\ UNCHANGED <<walVars, batchVars, gasVars, pipelineVars, pipeline,
                   l1_sender, block_cache>>

RoutingNext ==
    \/ \E threshold \in 1..MaxThreshold, incoming \in 0..MaxResponses :
        RoutingStart(threshold, incoming)
    \/ \E enough_signers \in BOOLEAN : AttemptStart(enough_signers)
    \/ \E request_id \in 0..MaxAttempts - 1 : ProcessorRoutes(request_id)
    \/ ProcessorResumes
    \/ \E accepted \in BOOLEAN : VerifierReceives(accepted)
    \/ VerifierRemoves
    \/ VerifierTimesOut
    \/ VerifierWakes

RoutingSpec == RoutingInit /\ [][RoutingNext]_vars

\* The attempt has collected its signatures and neither the verifier nor
\* the processor can take another step
Deadlocked ==
    /\ routing.verifier = "remove"
    /\ ~ENABLED VerifierRemoves
    /\ ~ENABLED ProcessorResumes

\* C36: the response processor and the verifier never deadlock on the
\* request_id map: an attempt that has collected threshold signatures
\* completes its cleanup and returns, even when the attempt's channel is
\* full and the processor is suspended in send with its reference to the
\* map entry.
C36_CleanupNeverDeadlocks == ~Deadlocked

-----------------------------------------------------------------------------
(* The rebuild stream of the command source *)

\* The number of Rebuild commands emitted for a partial block context
RebuildsOf(partial_block_context) ==
    Cardinality({i \in DOMAIN command_source.emitted :
        command_source.emitted[i] = RebuildCommand(partial_block_context)})

\* The WAL holds every block up to its latest
WalComplete ==
    \A block \in 0..UnwrapOr(LatestRecord(db), 0) :
        GetReplayRecord(db, block).tag = "Some"

\* C38: on a WAL without gaps the rebuild stream is finite: it emits one Rebuild command per
\* partial block context with transactions and ends once the queues are
\* consumed, also when a queue is or becomes empty, so that Produce commands
\* follow.
C38_RebuildStreamEnds ==
    WalComplete =>
        /\ command_source.pc # "looping"
        /\ \A k \in Kinds : RebuildsOf(KindTimestamp(k)) <= 1

-----------------------------------------------------------------------------
(* The blocks the gas adjuster has processed *)

\* A keep_updated has just returned Ok
UpdatedOk == Updated /\ adjuster'.last_result = "Ok"

\* The block keep_updated reads as current: the latest of the L1 minus one
CurrentBlock == SaturatingSub(GetBlockNumber(adjuster.l1), 1)

\* After a successful update last_processed_block is the current block
ProcessedUpToCurrent ==
    UpdatedOk => adjuster'.base_fee_statistics.last_processed_block = CurrentBlock

\* C39: after every successful keep_updated last_processed_block equals the
\* latest L1 block number minus one as read in that update, whatever the
\* number of entries the provider returned, so that every L1 block gives
\* exactly one sample.
C39_ProcessedUpToLatest == [][ProcessedUpToCurrent]_vars

\* The blocks from first to last, in order
BlocksFromTo(first, last) == [i \in 1..(last + 1 - first) |-> first + i - 1]

\* A successful update moves last_processed_block of both statistics on by
\* the number of entries returned; an answer with one entry per block asked
\* for brings it to the current block and samples each of those blocks once
ProcessedByEntries ==
    UpdatedOk =>
        LET before == adjuster.base_fee_statistics.last_processed_block
            after == adjuster'.base_fee_statistics.last_processed_block
        IN  /\ after = before + adjuster'.returned
            /\ adjuster'.blob_base_fee_statistics.last_processed_block = after
            /\ adjuster'.requested =
                    IF CurrentBlock > before THEN CurrentBlock - before ELSE 0
            /\ adjuster'.returned = adjuster'.requested =>
                    /\ after = IF CurrentBlock > before THEN CurrentBlock ELSE before
                    /\ adjuster'.sampled =
                            adjuster.sampled \o BlocksFromTo(before + 1, after)

\* C39 as the code has it: a successful keep_updated advances
\* last_processed_block by the number of entries the provider returned, the
\* same for both statistics; it reaches the latest block minus one, with one
\* sample per block, when the provider returned one entry per block asked
\* for.
C39_ProcessedByEntriesReturned ==
    /\ [](adjuster.pc # "none" =>
            adjuster.base_fee_statistics.last_processed_block =
                adjuster.blob_base_fee_statistics.last_processed_block)
    /\ [][ProcessedByEntries]_vars

\* An update of two blocks got the entry of one: last_processed_block is one
\* short of the current block
C39_Witness ==
    /\ adjuster.pc = "tick"
    /\ adjuster.last_result = "Ok"
    /\ adjuster.requested = 2
    /\ adjuster.returned = 1
    /\ adjuster.base_fee_statistics.last_processed_block = CurrentBlock - 1

-----------------------------------------------------------------------------
(* The block cache of the batch verification client: BlockCache *)

\* The blocks handed to the cache are numbered 0..MaxCacheBlock
MaxCacheBlock == 3

\* Two contents a block of a given number can have
CachedBlocks == {"a", "b"}

\* HashMap::insert(block_number, block)
DataInsert(data, block_number, block) ==
    [n \in DOMAIN data \cup {block_number} |->
        IF n = block_number THEN block ELSE data[n]]

\* remove_lower_then(block_number): the blocks low..block_number - 1 are
\* removed from data, low being that of the range; the range is left as it is
RemoveLowerThen(cache, block_number) ==
    IF cache.range = None THEN cache
    ELSE LET low == (CHOOSE range \in cache.range : TRUE)[1]
         IN  [cache EXCEPT !.data =
                [n \in DOMAIN @ \ (low..(block_number - 1)) |-> @[n]]]

\* BlockCache::insert(block_number, block): the cache after it, with its
\* result
CacheInsert(cache, block_number, block) ==
    LET stored == [cache EXCEPT
                      !.data = DataInsert(@, block_number, block),
                      !.block_number = block_number]
        high == (CHOOSE range \in cache.range : TRUE)[2]
        low == (CHOOSE range \in cache.range : TRUE)[1]
    IN  IF cache.range # None /\ block_number # high + 1
        THEN [stored EXCEPT !.result = "Err"]
        ELSE RemoveLowerThen(
                [stored EXCEPT
                    !.range = IF cache.range # None
                              THEN Some(<<low, block_number>>)
                              ELSE Some(<<block_number, block_number>>),
                    !.result = "Ok"],
                cache.last_committed_block + 1)

BlockCacheInit ==
    /\ WalInit
    /\ signature_set = NoSignatureSet
    /\ VerifierIdle
    /\ client = NoClient
    /\ GasIdle
    /\ PipelineIdle
    /\ pipeline = NoPipeline
    /\ l1_sender = NoL1Sender
    /\ routing = NoRouting
    /\ block_cache = [NoBlockCache EXCEPT !.pc = "ready"]

\* BlockCache::insert(block_number, block)
insert(block_number, block) ==
    /\ block_cache.pc = "ready"
    /\ block_cache' = CacheInsert(block_cache, block_number, block)
    /\ UNCHANGED <<walVars, batchVars, gasVars, pipelineVars, pipeline,
                   l1_sender, routing>>

\* BlockCache::remove_lower_then(block_number)
remove_lower_then(block_number) ==
    /\ block_cache.pc = "ready"
    /\ block_cache' =
        [RemoveLowerThen(block_cache, block_number) EXCEPT !.result = "none"]
    /\ UNCHANGED <<walVars, batchVars, gasVars, pipelineVars, pipeline,
                   l1_sender, routing>>

\* A batch is committed on L1: get_finality_status().last_committed_block
\* grows
BlockCommitted ==
    /\ block_cache.pc = "ready"
    /\ block_cache.last_committed_block < MaxCacheBlock
    /\ block_cache' = [block_cache EXCEPT !.last_committed_block = @ + 1,
                                          !.result = "none"]
    /\ UNCHANGED <<walVars, batchVars, gasVars, pipelineVars, pipeline,
                   l1_sender, routing>>

BlockCacheNext ==
    \/ \E block_number \in 0..MaxCacheBlock, block \in CachedBlocks :
        insert(block_number, block)
    \/ \E block_number \in 0..(MaxCacheBlock + 1) : remove_lower_then(block_number)
    \/ BlockCommitted

BlockCacheSpec == BlockCacheInit /\ [][BlockCacheNext]_vars

\* insert was called with a block that is not the next after the highest
OutOfOrderInsert ==
    /\ block_cache'.result # "none"
    /\ \E range \in block_cache.range : block_cache'.block_number # range[2] + 1

\* An insert out of order is refused and changes nothing
RefusedUnchanged ==
    OutOfOrderInsert =>
        /\ block_cache'.result = "Err"
        /\ block_cache'.data = block_cache.data
        /\ block_cache'.range = block_cache.range

\* C40: BlockCache accepts blocks only in ascending consecutive order:
\* insert(n, _) with n other than the highest block plus one returns an
\* error and leaves the cache as it was: the blocks stored keep their value,
\* n is not stored, the range is unchanged.
C40_OutOfOrderInsertRefused == [][RefusedUnchanged]_vars


====
